---- MODULE Spec2Model ----
(***************************************************************************)
(* honeybee-ies: the GEM codec (honeybee_ies/types.py, writer.py,          *)
(* reader.py) as state machines.                                           *)
(*                                                                         *)
(* Text is a sequence of atoms (strings).  The atom NL is the line break;  *)
(* every other atom is a piece of one line: a keyword, a number printed    *)
(* by the formatter, one character of a display name or identifier, or a   *)
(* formatted coordinate line.  '\n'.join, string concatenation and         *)
(* str.split are computed on these sequences.                              *)
(***************************************************************************)
EXTENDS Integers, Sequences, FiniteSets, TLC

VARIABLES
    call,       \* the entry point invoked with its arguments, [fn |-> "none"] before
    heap,       \* host-model objects by reference: reference -> Model value
    ret,        \* outcome of the call: [kind |-> "none" | "return" | "raise", ...]
    printed,    \* number of diagnostics print() has emitted
    files       \* files on disk: file name -> text written

vars == <<call, heap, ret, printed, files>>

----------------------------------------------------------------------------
(* Text helpers: str.join, str.split('\n'), str.split()                    *)

NL == "\n"
SP == " "

RECURSIVE Join(_, _)
\* sep.join(parts): parts is a sequence of texts
Join(sep, parts) ==
    IF parts = <<>> THEN <<>>
    ELSE IF Len(parts) = 1 THEN parts[1]
    ELSE parts[1] \o sep \o Join(sep, Tail(parts))

\* the positions of a text that hold the separator, in order
SepsOf(text, sep) ==
    SelectSeq([i \in 1..Len(text) |-> i], LAMBDA i : text[i] = sep)

\* the pieces between the separators at the given positions
SplitAt(text, seps) ==
    [k \in 1..(Len(seps) + 1) |->
        SubSeq(text,
               IF k = 1 THEN 1 ELSE seps[k - 1] + 1,
               IF k = Len(seps) + 1 THEN Len(text) ELSE seps[k] - 1)]

\* text.split(sep) for a one-atom separator: the pieces between the separators
SplitOn(text, sep) == SplitAt(text, SepsOf(text, sep))

\* text.split('\n')
Lines(text) == SplitOn(text, NL)

RECURSIVE Digits(_)
\* the decimal digits of n >= 0, most significant first
Digits(n) ==
    IF n < 10 THEN <<ToString(n)>> ELSE Digits(n \div 10) \o <<ToString(n % 10)>>

\* '%d' % n as one atom of a line
Num(n) == ToString(n)

SeqSum(s) == LET RECURSIVE Sum(_)
                 Sum(k) == IF k = 0 THEN 0 ELSE s[k] + Sum(k - 1)
             IN Sum(Len(s))

RECURSIVE Flatten(_)
\* concatenation of a sequence of sequences
Flatten(ss) == IF ss = <<>> THEN <<>> ELSE ss[1] \o Flatten(Tail(ss))

Range(s) == {s[i] : i \in DOMAIN s}

----------------------------------------------------------------------------
(* honeybee_ies/types.py: GEM_TYPES                                        *)

\* the enumeration members
GEM_TYPES ==
    {"Space", "UnconditionedSpace", "TranslucentShade", "ContextBuilding",
     "PV", "Tree", "Topography", "Shade", "Shade_2"}

\* self.value.split('-'): CATEGORY, TYPE, SUBTYPE, LAYER, COLOR, COLORRGB as
\* their digit strings, and KEYWORD
GemValue(t) ==
    CASE t = "Space" ->
           << <<1>>, <<0,0,1>>, <<2,0,0,1>>, <<0,1>>, <<0,0>>, <<1,6,7,1,1,6,8,0>>, "IES" >>
      [] t = "UnconditionedSpace" ->
           << <<1>>, <<0,0,1>>, <<2,0,0,2>>, <<0,1>>, <<0,0>>, <<1,6,7,1,1,6,8,0>>, "IES" >>
      [] t = "TranslucentShade" ->
           << <<1>>, <<0,0,1>>, <<2,1,0,2>>, <<6,4>>, <<0,0>>, <<0>>, "IES" >>
      [] t = "ContextBuilding" ->
           << <<1>>, <<0,0,2>>, <<0,0,0,0>>, <<6,2>>, <<0,0>>, <<1,6,7,1,1,9,3,5>>, "IES" >>
      [] t = "PV" ->
           << <<3>>, <<2,0,2>>, <<0,0,0,0>>, <<0,1>>, <<0,0>>, <<3,2,7,6,7>>, "PVP" >>
      [] t = "Tree" ->
           << <<1>>, <<0,0,3>>, <<0,0,0,0>>, <<6,5>>, <<0,0>>, <<2,3,9,9,2,9,4>>, "LAN" >>
      [] t = "Topography" ->
           << <<1>>, <<0,0,3>>, <<0,0,0,0>>, <<6,3>>, <<0,0>>, <<3,8,4,0,0>>, "IES" >>
      [] t = "Shade" ->
           << <<1>>, <<0,0,4>>, <<0,0,0,0>>, <<6,4>>, <<6,2>>, <<6,5,2,8,0>>, "IES" >>
      [] t = "Shade_2" ->
           << <<1>>, <<0,0,4>>, <<2,1,0,1>>, <<6,6>>, <<0,1>>, <<6,5,2,8,0>>, "IES" >>

RECURSIVE ParseInt(_)
\* int(s) of a digit string: leading zeros carry no value
ParseInt(ds) ==
    IF ds = <<>> THEN 0 ELSE 10 * ParseInt(SubSeq(ds, 1, Len(ds) - 1)) + ds[Len(ds)]

\* _get_numeric_values(index), index counted from 0 as in the source
get_numeric_values(t, index) == ParseInt(GemValue(t)[index + 1])

category(t) == get_numeric_values(t, 0)
type(t)     == get_numeric_values(t, 1)
subtype(t)  == get_numeric_values(t, 2)
layer(t)    == get_numeric_values(t, 3)
color(t, rgb) == IF rgb THEN get_numeric_values(t, 5) ELSE get_numeric_values(t, 4)
keyword_always_ies(t) == "IES"

keyword(t)  == GemValue(t)[Len(GemValue(t))]

\* the else branch of from_info: one print(), then cls.Shade
from_info_unknown_skip_print(category_, type_, subtype_, keyword_) ==
    [member |-> "Shade", prints |-> 0]

from_info_unknown(category_, type_, subtype_, keyword_) ==
    [member |-> "Shade", prints |-> 1]

\* from_info: the returned member and the number of print() calls it made
from_info(category_, type_, subtype_, keyword_) ==
    IF category_ = 1 /\ subtype_ = 2001 /\ type_ = 1 /\ keyword_ = "IES"
        THEN [member |-> "Space", prints |-> 0]
    ELSE IF category_ = 1 /\ subtype_ = 2002 /\ type_ = 1 /\ keyword_ = "IES"
        THEN [member |-> "UnconditionedSpace", prints |-> 0]
    ELSE IF category_ = 1 /\ subtype_ = 2102 /\ type_ = 1 /\ keyword_ = "IES"
        THEN [member |-> "TranslucentShade", prints |-> 0]
    ELSE IF category_ = 1 /\ subtype_ = 0 /\ type_ = 2 /\ keyword_ = "IES"
        THEN [member |-> "ContextBuilding", prints |-> 0]
    ELSE IF category_ = 3 /\ subtype_ = 0 /\ type_ = 202 /\ keyword_ = "PVP"
        THEN [member |-> "PV", prints |-> 0]
    ELSE IF category_ = 1 /\ subtype_ = 0 /\ type_ = 3 /\ keyword_ = "IES"
        THEN [member |-> "Topography", prints |-> 0]
    ELSE IF category_ = 1 /\ subtype_ = 0 /\ type_ = 3 /\ keyword_ = "LAN"
        THEN [member |-> "Tree", prints |-> 0]
    ELSE IF category_ = 1 /\ subtype_ = 0 /\ type_ = 4 /\ keyword_ = "IES"
        THEN [member |-> "Shade", prints |-> 0]
    ELSE IF category_ = 1 /\ subtype_ = 2101 /\ type_ = 4 /\ keyword_ = "IES"
        THEN [member |-> "Shade_2", prints |-> 0]
    ELSE from_info_unknown(category_, type_, subtype_, keyword_)

----------------------------------------------------------------------------
(* honeybee_ies/writer.py: room identifiers                                *)

\* characters of display names: ASCII vowels, whitespace, ASCII non-word
\* characters, ASCII word characters, and non-ASCII word characters (written
\* by code point: U+00E9 is e-acute, U+00C9 its upper case, U+0627 alef)
Vowels     == {"a", "e", "i", "o", "u", "A", "E", "I", "O", "U"}
Whitespace == {SP, NL, "\t"}
NonWord    == {"-", "[", "]", "#"}
AsciiWord  == {"r", "m", "R", "M", "s", "S", "t", "T", "1", "3", "_"}
NonAscii   == {"U+00E9", "U+00C9", "U+0627"}

\* str.upper() on one character
Upper(c) ==
    CASE c = "r" -> "R" [] c = "m" -> "M" [] c = "s" -> "S" [] c = "t" -> "T"
      [] c = "a" -> "A" [] c = "e" -> "E" [] c = "i" -> "I" [] c = "o" -> "O"
      [] c = "u" -> "U" [] c = "U+00E9" -> "U+00C9"
      [] OTHER -> c

\* re.sub(r"[aeiouAEIOU\s\W]+", '', display_name): the characters that stay
RECURSIVE ReSub(_)
ReSub(name) ==
    IF name = <<>> THEN <<>>
    ELSE IF name[1] \in Vowels \cup Whitespace \cup NonWord THEN ReSub(Tail(name))
    ELSE <<name[1]>> \o ReSub(Tail(name))

\* _gen_ve_id: the 2 characters, or ValueError
gen_ve_id(display_name) ==
    LET identifier == [i \in 1..Len(ReSub(display_name)) |-> Upper(ReSub(display_name)[i])]
    IN  IF Len(identifier) < 2
            THEN [raise |-> TRUE]
            ELSE [raise |-> FALSE, value |-> SubSeq(identifier, 1, 2)]

\* f'{n:06d}'
Fmt06d(n) ==
    LET ds == Digits(n)
    IN  [i \in 1..(6 - Len(ds)) |-> "0"] \o ds

\* honeybee's identifier setter accepts only [.A-Za-z0-9_-], 1 to 100 characters;
\* anything else is the AssertionError that line 58 catches
IllegalIdChars == Whitespace \cup (NonWord \ {"-"}) \cup NonAscii

valid_string(value) ==
    /\ \A i \in 1..Len(value) : value[i] \notin IllegalIdChars
    /\ Len(value) > 0
    /\ Len(value) <= 100

\* dict item assignment d[k] = v
DictSet(d, k, v) == [x \in DOMAIN d \cup {k} |-> IF x = k THEN v ELSE d[x]]

\* id_counter[ve_identifier] after 'if not in: = -1' and '+= 1'
CounterBump(id_counter, ve_identifier) ==
    IF ve_identifier \notin DOMAIN id_counter
        THEN DictSet(id_counter, ve_identifier, -1 + 1)
        ELSE DictSet(id_counter, ve_identifier, id_counter[ve_identifier] + 1)

\* the identifier the room ends up with: the try / except AssertionError
RoomIdentifierSet(full_ve_id, count) ==
    IF valid_string(full_ve_id) THEN full_ve_id ELSE <<"R", "M">> \o Fmt06d(count)

RECURSIVE ConvertLoop(_, _, _, _)
\* the for loop of _convert_room_ids from room i on
ConvertLoop(rooms, i, id_mapper, id_counter) ==
    IF i > Len(rooms) THEN [raise |-> FALSE, rooms |-> rooms, id_mapper |-> id_mapper]
    ELSE
      LET room  == rooms[i]
          ve    == gen_ve_id(room.display_name)
      IN  IF ve.raise THEN [raise |-> TRUE, rooms |-> rooms, id_mapper |-> id_mapper]
          ELSE
            LET counter    == CounterBump(id_counter, ve.value)
                full_ve_id == ve.value \o Fmt06d(counter[ve.value])
                mapper     == DictSet(id_mapper, room.identifier, full_ve_id)
                newid      == RoomIdentifierSet(full_ve_id, counter[ve.value])
            IN  ConvertLoop([rooms EXCEPT ![i].identifier = newid], i + 1, mapper, counter)

\* _convert_room_ids(model): the rooms as updated in place and the returned mapper
\* (raise: _gen_ve_id raised ValueError; the rooms before it stay converted)
ConvertedModel(model, r) ==
    [raise |-> r.raise, model |-> [model EXCEPT !.rooms = r.rooms], id_mapper |-> r.id_mapper]

convert_room_ids(model) == ConvertedModel(model, ConvertLoop(model.rooms, 1, <<>>, <<>>))

----------------------------------------------------------------------------
(* Host geometry as the writer reads it.  A Point3D is a point name (a     *)
(* number); a Face3D is [kind, boundary, holes]; a Polyface3D is           *)
(* [kind, vertices, face_indices, faces]; a ShadeMesh geometry is          *)
(* [kind, vertices, faces].  Coordinates are not modelled: a formatted     *)
(* coordinate line is the atom "xyz" (3D) or "xy" (2D).                    *)

Face3D(boundary, holes) == [kind |-> "Face3D", boundary |-> boundary, holes |-> holes]

has_holes(g) == g.holes # <<>>

\* Face3D.vertices: the boundary, and for a face with holes one loop that winds
\* inward to each hole and back (the hole, its first vertex again, and the
\* boundary vertex the loop left from)
FaceVertices(g) ==
    g.boundary \o
    Flatten([i \in 1..Len(g.holes) |->
                g.holes[i] \o <<g.holes[i][1], g.boundary[Len(g.boundary)]>>])

RECURSIVE Unique(_, _)
\* the points of a list without repetition, in order of first appearance
Unique(pts, seen) ==
    IF pts = <<>> THEN seen
    ELSE IF pts[1] \in Range(seen) THEN Unique(Tail(pts), seen)
    ELSE Unique(Tail(pts), Append(seen, pts[1]))

\* position of a point in a list, counted from 0; -1 when absent
IndexOf(p, pts) ==
    IF p \in Range(pts) THEN (CHOOSE i \in 1..Len(pts) :
                                 pts[i] = p /\ \A j \in 1..(i - 1) : pts[j] # p) - 1
    ELSE -1

\* Polyface3D.from_faces: shared vertices once, each face as index loops
\* (boundary first, then holes)
PolyfaceFromFaces(faces) ==
    LET loops(g) == <<g.boundary>> \o g.holes
        vertices == Unique(Flatten([i \in 1..Len(faces) |-> Flatten(loops(faces[i]))]), <<>>)
    IN  [kind |-> "Polyface3D",
         vertices |-> vertices,
         face_indices |-> [i \in 1..Len(faces) |->
             [k \in 1..Len(loops(faces[i])) |->
                 [j \in 1..Len(loops(faces[i])[k]) |->
                     IndexOf(loops(faces[i])[k][j], vertices)]]],
         faces |-> faces]

\* Polyface3D.from_offset_face: the face, its offset copy and one side per edge;
\* the moved points get fresh names
PolyfaceFromOffsetFace(g) ==
    LET n    == Len(g.boundary)
        bot  == [i \in 1..n |-> 1000 + g.boundary[i]]
        top  == [i \in 1..n |-> 2000 + g.boundary[i]]
        side(i) == <<bot[i], bot[(i % n) + 1], top[(i % n) + 1], top[i]>>
    IN  PolyfaceFromFaces(<<Face3D(bot, <<>>), Face3D(top, <<>>)>> \o
                          [i \in 1..n |-> Face3D(side(i), <<>>)])

\* lower_left_counter_clockwise_vertices: the same loop started at its lower
\* left vertex (here the smallest point name)
LowerLeftCCW(pts) ==
    IF pts = <<>> THEN <<>>
    ELSE LET k == CHOOSE i \in 1..Len(pts) : \A j \in 1..Len(pts) : pts[i] <= pts[j]
         IN  SubSeq(pts, k, Len(pts)) \o SubSeq(pts, 1, k - 1)

----------------------------------------------------------------------------
(* honeybee_ies/types.py: to_gem, from_user_data                           *)

\* dict.get(key, default); None and {} are both the empty dict <<>>
DictGet(d, k, default) == IF k \in DOMAIN d THEN d[k] ELSE default

from_user_data(user_data) ==
    IF DOMAIN user_data = {} THEN "None"
    ELSE LET g1 == DictGet(user_data, "__gem_type__", "None")
             gem_type == IF g1 = "None" \/ g1 = "" THEN DictGet(user_data, "__ies_type__", "None")
                         ELSE g1
         IN  CASE gem_type = "topography" -> "Topography"
               [] gem_type = "translucent_shade" -> "TranslucentShade"
               [] gem_type = "pv" -> "PV"
               [] gem_type = "tree" -> "Tree"
               [] OTHER -> "None"

\* gem_header of to_gem: six keyword / value line pairs and the name line
GemHeader(self, name, identifier) ==
    LET full_name == IF identifier = <<>> THEN name
                     ELSE name \o <<SP, "[">> \o identifier \o <<"]">>
    IN  <<"LAYER", NL, Num(layer(self)), NL>> \o
        <<"COLOUR", NL, Num(color(self, FALSE)), NL>> \o
        <<"CATEGORY", NL, Num(category(self)), NL>> \o
        <<"TYPE", NL, Num(type(self)), NL>> \o
        <<"SUBTYPE", NL, Num(subtype(self)), NL>> \o
        <<"COLOURRGB", NL, Num(color(self, TRUE)), NL>> \o
        <<keyword(self), SP>> \o full_name \o <<NL>>

\* what to_gem returns once gem_header is built
GemText(self, gem_header, vertices, faces_, vertices_count, face_count) ==
    LET gem_str == gem_header \o <<Num(vertices_count), SP, Num(face_count), NL>> \o
                   vertices \o <<NL>> \o faces_
        lines == Lines(gem_str)
    IN  IF self \in {"Tree", "PV"} THEN gem_header \o vertices
        ELSE IF self = "TranslucentShade"
            THEN Join(<<NL>>, SubSeq(lines, 1, Len(lines) - 1)) \o
                 <<NL, "1", NL, Num(vertices_count), SP, "0", NL>> \o vertices
        ELSE gem_str

\* to_gem(self, name, identifier, vertices, faces, vertices_count, face_count)
to_gem(self, name, identifier, vertices, faces_, vertices_count, face_count) ==
    GemText(self, GemHeader(self, name, identifier), vertices, faces_,
            vertices_count, face_count)

----------------------------------------------------------------------------
(* honeybee_ies/writer.py: geometry to text                                *)

\* _opening_to_ies: per opening a '{count} {type}' line and its 2D vertex lines
opening_to_ies(parent_geo, opening_geos, opening_type) ==
    Join(<<NL>>,
         Flatten([i \in 1..Len(opening_geos) |->
             << <<Num(Len(FaceVertices(opening_geos[i]))), SP, Num(opening_type)>>,
                Join(<<NL>>, [j \in 1..Len(FaceVertices(opening_geos[i])) |-> <<"xy">>]) >>]))

\* _vertices_to_ies
vertices_to_ies(vertices) == Join(<<NL>>, [i \in 1..Len(vertices) |-> <<"xyz">>])

\* '%d %s\n' % (len(index), ' '.join(index))
FaceStr(index) ==
    <<Num(Len(index)), SP>> \o Join(<<SP>>, [i \in 1..Len(index) |-> <<index[i]>>]) \o <<NL>>

\* one face record of a shade: index line, opening count, hole blocks
ShadeFaceRecord(index, face) ==
    LET sub_faces == [i \in 1..Len(face.holes) |-> Face3D(face.holes[i], <<>>)]
        openings  == IF has_holes(face) THEN <<opening_to_ies(face, sub_faces, 2)>> ELSE <<>>
        open_count == IF has_holes(face) THEN Len(sub_faces) ELSE 0
        open_str  == IF Len(openings) # 0 THEN <<NL>> \o Join(<<NL>>, openings) ELSE <<>>
    IN  FaceStr(index) \o <<Num(open_count)>> \o open_str

\* _shade_geometry_to_ies: [raise, text, prints]
shade_geometry_to_ies(geometry, name, is_detached, identifier, user_data) ==
    LET from_ud  == from_user_data(user_data)
        gem_type == IF from_ud = "None"
                    THEN (IF is_detached THEN "ContextBuilding" ELSE "Shade")
                    ELSE from_ud
    IN
    IF gem_type \in {"PV", "Tree"} THEN
        \* boundary_polygon2d, lower_right_corner and plane exist on a Face3D only
        IF geometry.kind # "Face3D" THEN [raise |-> TRUE, text |-> <<>>, prints |-> 0]
        ELSE IF gem_type = "PV" THEN
            [raise |-> FALSE, prints |-> 0,
             text |-> to_gem(gem_type, name, identifier, <<"pv_info">>, <<>>, 0, 0)]
        ELSE
            [raise |-> FALSE, prints |-> 0,
             text |-> to_gem(gem_type, name, identifier,
                             <<"2D", SP, "Tree", SP,
                               Num(DictGet(user_data, "__gem_tree_type__", 1)), NL,
                               "tree_info">>, <<>>, 0, 0)]
    ELSE
    LET unique_vertices ==
            IF geometry.kind = "Face3D" THEN LowerLeftCCW(FaceVertices(geometry))
            ELSE geometry.vertices
        faces_ ==
            IF geometry.kind = "Polyface3D" THEN
                [i \in 1..Len(geometry.faces) |->
                    ShadeFaceRecord(
                        [j \in 1..Len(geometry.face_indices[i][1]) |->
                            Num(geometry.face_indices[i][1][j] + 1)],
                        geometry.faces[i])]
            ELSE IF geometry.kind = "ShadeMesh" THEN
                [i \in 1..Len(geometry.faces) |->
                    FaceStr([j \in 1..Len(geometry.faces[i]) |->
                                Num(geometry.faces[i][j] + 1)]) \o <<"0">>]
            ELSE
                <<ShadeFaceRecord([v \in 1..Len(unique_vertices) |-> Num((v - 1) + 1)],
                                  geometry)>>
        face_count == IF geometry.kind = "Face3D" THEN 1 ELSE Len(geometry.faces)
    IN  IF Len(unique_vertices) < 3
            THEN [raise |-> FALSE, text |-> <<>>, prints |-> 1]
            ELSE [raise |-> FALSE, prints |-> 0,
                  text |-> to_gem(gem_type, name, identifier,
                                  vertices_to_ies(unique_vertices),
                                  Join(<<NL>>, faces_),
                                  Len(unique_vertices), face_count)]

----------------------------------------------------------------------------
(* honeybee_ies/writer.py: shades                                          *)

RECURSIVE SplitWs(_, _, _)
\* str.split(): the maximal runs of non-whitespace characters
SplitWs(name, i, cur) ==
    IF i > Len(name) THEN (IF cur = <<>> THEN <<>> ELSE <<cur>>)
    ELSE IF name[i] \in Whitespace
        THEN (IF cur = <<>> THEN <<>> ELSE <<cur>>) \o SplitWs(name, i + 1, <<>>)
    ELSE SplitWs(name, i + 1, Append(cur, name[i]))

\* ' '.join(display_name.split())
CollapseName(display_name) == Join(<<SP>>, SplitWs(display_name, 1, <<>>))

\* results of several conversions, in order: raise if one raised
Gather(results) ==
    [raise  |-> \E i \in 1..Len(results) : results[i].raise,
     texts  |-> [i \in 1..Len(results) |-> results[i].text],
     prints |-> SeqSum([i \in 1..Len(results) |-> results[i].prints])]

\* _shade_group_to_ies
shade_group_to_ies(shades) ==
    LET group_geometry == PolyfaceFromFaces([i \in 1..Len(shades) |-> shades[i].geometry])
        first_shade    == shades[1]
        shade_name     == CollapseName(first_shade.display_name)
    IN  shade_geometry_to_ies(group_geometry, shade_name, first_shade.is_detached,
                              first_shade.identifier, first_shade.user_data)

\* _shade_to_ies
shade_to_ies(shade, thickness) ==
    LET shade_geo  == IF thickness = 0 THEN shade.geometry
                      ELSE PolyfaceFromOffsetFace(shade.geometry)
        shade_name == CollapseName(shade.display_name)
    IN  shade_geometry_to_ies(shade_geo, shade_name, shade.is_detached,
                              shade.identifier, shade.user_data)

\* the '__ies_import__' test of shades_to_ies
IsImportShade(shade) ==
    /\ DOMAIN shade.user_data # {}
    /\ "__ies_import__" \in DOMAIN shade.user_data
    /\ shade.user_data["__ies_import__"] = TRUE

RECURSIVE GroupLoop(_, _, _, _)
\* the first loop of shades_to_ies: shade_groups as (key, members) pairs in
\* insertion order, and no_groups
GroupLoop(shades, i, shade_groups, no_groups) ==
    IF i > Len(shades) THEN [shade_groups |-> shade_groups, no_groups |-> no_groups]
    ELSE
      LET shade == shades[i]
      IN  IF IsImportShade(shade) THEN GroupLoop(shades, i + 1, shade_groups, no_groups)
          ELSE IF "__group_id__" \notin DOMAIN shade.user_data
              THEN GroupLoop(shades, i + 1, shade_groups, Append(no_groups, shade))
          ELSE
            LET group_id == shade.user_data["__group_id__"]
                known == \E k \in 1..Len(shade_groups) : shade_groups[k].key = group_id
            IN  IF ~known
                  THEN GroupLoop(shades, i + 1,
                                 Append(shade_groups, [key |-> group_id, value |-> <<shade>>]),
                                 no_groups)
                  ELSE GroupLoop(shades, i + 1,
                                 [k \in 1..Len(shade_groups) |->
                                    IF shade_groups[k].key = group_id
                                    THEN [shade_groups[k] EXCEPT !.value = Append(@, shade)]
                                    ELSE shade_groups[k]],
                                 no_groups)

\* the return of shades_to_ies: the two joined texts, joined
ShadesJoined(singles, groups) ==
    [raise  |-> singles.raise \/ groups.raise,
     prints |-> singles.prints + groups.prints,
     text   |-> Join(<<NL>>, <<Join(<<NL>>, singles.texts), Join(<<NL>>, groups.texts)>>)]

\* shades_to_ies after its first loop: the groups of one move to no_groups,
\* then the shades of no_groups and the remaining groups are converted
ShadesFromGroups(g, thickness) ==
    LET IsSingle(e) == Len(e.value) = 1
        IsGroup(e)  == Len(e.value) # 1
        single_keys  == SelectSeq(g.shade_groups, IsSingle)
        shade_groups == SelectSeq(g.shade_groups, IsGroup)
        no_groups    == g.no_groups \o [k \in 1..Len(single_keys) |-> single_keys[k].value[1]]
    IN  ShadesJoined(
            Gather([k \in 1..Len(no_groups) |-> shade_to_ies(no_groups[k], thickness)]),
            Gather([k \in 1..Len(shade_groups) |->
                       shade_group_to_ies(shade_groups[k].value)]))

\* shades_to_ies: [raise, text, prints]
shades_to_ies(shades, thickness) ==
    ShadesFromGroups(GroupLoop(shades, 1, <<>>, <<>>), thickness)

\* shade_meshes_to_ies: [raise, text, prints]
shade_meshes_to_ies(shades) ==
    LET rs == Gather([k \in 1..Len(shades) |->
                  shade_geometry_to_ies(shades[k].geometry, shades[k].display_name,
                                        shades[k].is_detached, shades[k].identifier,
                                        shades[k].user_data)])
    IN  [raise |-> rs.raise, prints |-> rs.prints,
         text |-> IF shades = <<>> THEN <<>> ELSE Join(<<NL>>, rs.texts)]

----------------------------------------------------------------------------
(* honeybee_ies/writer.py: rooms                                           *)

\* a face loop that suppresses no face
IsImportAirBoundaryNever(face) == FALSE

\* the first if of the face loop: an AirBoundary whose user_data has the key
IsImportAirBoundary(face) ==
    /\ face.type = "AirBoundary"
    /\ DOMAIN face.user_data # {}
    /\ "__ies_import__" \in DOMAIN face.user_data

\* the AirBoundary / has_holes branches: the opening texts appended and the
\* openings counted
RoomFaceHolesNoAirBoundary(face, fg) ==
    LET hole_faces == [i \in 1..Len(fg.holes) |-> Face3D(fg.holes[i], <<>>)]
    IN  IF has_holes(fg)
            THEN [openings |-> <<opening_to_ies(fg, hole_faces, 2)>>, n |-> Len(hole_faces)]
        ELSE [openings |-> <<>>, n |-> 0]

RoomFaceHoles(face, fg) ==
    LET ab_faces   == <<Face3D(FaceVertices(fg), <<>>)>>
        hole_faces == [i \in 1..Len(fg.holes) |-> Face3D(fg.holes[i], <<>>)]
    IN  IF face.type = "AirBoundary"
            THEN [openings |-> <<opening_to_ies(fg, ab_faces, 2)>>, n |-> 1]
        ELSE IF has_holes(fg)
            THEN [openings |-> <<opening_to_ies(fg, hole_faces, 2)>>, n |-> Len(hole_faces)]
        ELSE [openings |-> <<>>, n |-> 0]

\* the apertures branch
RoomFaceApertures(face, fg) ==
    LET ap_faces == [i \in 1..Len(face.apertures) |-> face.apertures[i].geometry]
    IN  IF Len(face.apertures) # 0
            THEN [openings |-> <<opening_to_ies(fg, ap_faces, 0)>>, n |-> Len(ap_faces)]
        ELSE [openings |-> <<>>, n |-> 0]

\* the doors branch
RoomFaceDoors(face, fg) ==
    LET dr_faces == [i \in 1..Len(face.doors) |-> face.doors[i].geometry]
    IN  IF Len(face.doors) # 0
            THEN [openings |-> <<opening_to_ies(fg, dr_faces, 1)>>, n |-> Len(dr_faces)]
        ELSE [openings |-> <<>>, n |-> 0]

\* the order in which the three branches append to openings
RoomFaceOpeningsAperturesFirst(face, fg) ==
    <<RoomFaceApertures(face, fg), RoomFaceDoors(face, fg), RoomFaceHoles(face, fg)>>

RoomFaceOpenings(face, fg) ==
    <<RoomFaceHoles(face, fg), RoomFaceApertures(face, fg), RoomFaceDoors(face, fg)>>

\* '%s%d%s' % (face_str, open_count, open_str) from what the branches appended
FaceRecordText(index, parts) ==
    LET openings   == parts[1].openings \o parts[2].openings \o parts[3].openings
        open_count == parts[1].n + parts[2].n + parts[3].n
        open_str   == IF Len(openings) # 0 THEN <<NL>> \o Join(<<NL>>, openings) ELSE <<>>
    IN  FaceStr(index) \o <<Num(open_count)>> \o open_str

\* one entry of faces: index line, opening count, and the opening blocks
RoomFaceRecord(face, index, fg) == FaceRecordText(index, RoomFaceOpenings(face, fg))

\* _find_index for every vertex of a fragment: the 1-based positions, or ValueError
FindIndexes(fg, unique_vertices) ==
    LET vs == LowerLeftCCW(FaceVertices(fg))
    IN  [raise |-> \E i \in 1..Len(vs) : vs[i] \notin Range(unique_vertices),
         index |-> [i \in 1..Len(vs) |-> Num(IndexOf(vs[i], unique_vertices) + 1)]]

\* the body of the face loop for one face:
\* [skip, raise, records, extra (added to face_count), prints]
RoomFaceToIes(face, face_i, unique_vertices) ==
    LET whole == <<[j \in 1..Len(face_i[1]) |-> Num(face_i[1][j] + 1)]>>
        one(indexes, fgs, extra, prints) ==
            [skip |-> FALSE, raise |-> FALSE, extra |-> extra, prints |-> prints,
             records |-> [k \in 1..Len(fgs) |-> RoomFaceRecord(face, indexes[k], fgs[k])]]
    IN
    IF IsImportAirBoundary(face)
        THEN [skip |-> TRUE, raise |-> FALSE, records |-> <<>>, extra |-> 0, prints |-> 0]
    ELSE IF face.type \in {"RoofCeiling", "Floor"} /\ has_holes(face.geometry) THEN
        IF face.split.kind = "AssertionError"
            THEN [skip |-> FALSE, raise |-> TRUE, records |-> <<>>, extra |-> 0, prints |-> 0]
        ELSE IF face.split.kind = "AssertionError3"
            THEN one(whole, <<face.geometry>>, 0, 1)
        ELSE
            LET fgs   == face.split.fragments
                found == [k \in 1..Len(fgs) |-> FindIndexes(fgs[k], unique_vertices)]
            IN  IF \E k \in 1..Len(fgs) : found[k].raise
                    THEN [skip |-> FALSE, raise |-> TRUE, records |-> <<>>,
                          extra |-> 0, prints |-> 0]
                    ELSE one([k \in 1..Len(fgs) |-> found[k].index], fgs, Len(fgs) - 1, 0)
    ELSE one(whole, <<face.geometry>>, 0, 0)

\* every shade of the room: its own, then per face those of apertures and doors
RoomShades(room) ==
    room.shades \o
    Flatten([i \in 1..Len(room.faces) |->
        Flatten([a \in 1..Len(room.faces[i].apertures) |-> room.faces[i].apertures[a].shades])
        \o
        Flatten([d \in 1..Len(room.faces[i].doors) |-> room.faces[i].doors[d].shades])])

\* a room record whose face count is len(room.faces), whatever the face loop
\* skipped or split
RoomTextFacesOnly(room, unique_vertices, per, formatted_shades) ==
    LET faces_ == Flatten([i \in 1..Len(per) |-> per[i].records])
        space == to_gem("Space", room.display_name, room.identifier,
                        vertices_to_ies(unique_vertices),
                        Join(<<NL>>, faces_), Len(unique_vertices), Len(room.faces))
        face_raise == \E i \in 1..Len(per) : per[i].raise
        face_prints == SeqSum([i \in 1..Len(per) |-> per[i].prints])
    IN  IF face_raise THEN [raise |-> TRUE, text |-> <<>>, prints |-> face_prints, room |-> room]
        ELSE IF RoomShades(room) # <<>> THEN
            [raise |-> formatted_shades.raise, prints |-> face_prints + formatted_shades.prints,
             text |-> Join(<<NL>>, <<space, formatted_shades.text>>), room |-> room]
        ELSE [raise |-> FALSE, text |-> space, prints |-> face_prints, room |-> room]

\* room_to_ies after the face loop: the Space record, then the shades
RoomText(room, unique_vertices, per, formatted_shades) ==
    LET face_count == Len(room.faces) + SeqSum([i \in 1..Len(per) |-> per[i].extra])
        air_boundary_count == Cardinality({i \in 1..Len(per) : per[i].skip})
        faces_ == Flatten([i \in 1..Len(per) |-> per[i].records])
        space == to_gem("Space", room.display_name, room.identifier,
                        vertices_to_ies(unique_vertices),
                        Join(<<NL>>, faces_), Len(unique_vertices),
                        face_count - air_boundary_count)
        face_raise == \E i \in 1..Len(per) : per[i].raise
        face_prints == SeqSum([i \in 1..Len(per) |-> per[i].prints])
    IN  IF face_raise THEN [raise |-> TRUE, text |-> <<>>, prints |-> face_prints, room |-> room]
        ELSE IF RoomShades(room) # <<>> THEN
            [raise |-> formatted_shades.raise, prints |-> face_prints + formatted_shades.prints,
             text |-> Join(<<NL>>, <<space, formatted_shades.text>>), room |-> room]
        ELSE [raise |-> FALSE, text |-> space, prints |-> face_prints, room |-> room]

\* room_to_ies: [raise, text, prints, room], room being the room as the call
\* leaves it (display_name is assigned)
room_to_ies(room_in, shade_thickness) ==
    LET room == [room_in EXCEPT !.display_name = CollapseName(room_in.display_name)]
        geometry == PolyfaceFromFaces([i \in 1..Len(room.faces) |-> room.faces[i].geometry])
    IN  RoomText(room, geometry.vertices,
                 [i \in 1..Len(room.faces) |->
                     RoomFaceToIes(room.faces[i], geometry.face_indices[i], geometry.vertices)],
                 shades_to_ies(RoomShades(room), shade_thickness))

----------------------------------------------------------------------------
(* honeybee_ies/writer.py: model_to_gem, model_to_ies                      *)

\* a duplicate() that hands back the object it was called on
DuplicateSameObject(h, ref) == [heap |-> h, ref |-> ref]

\* model.duplicate(): a new object with the same contents; the heap grows by one
Duplicate(h, ref) == [heap |-> Append(h, h[ref]), ref |-> Len(h) + 1]

\* model.convert_to_units(units='Meters') on the object
ConvertToUnits(model, units) == [model EXCEPT !.units = units]

\* what both entry points have once the texts are made:
\* [raise, heap, id_mapper, rooms_data, context_shades, mesh_shades, prints]
WriterTexts(h, conv, rooms, context, mesh) ==
    IF conv.raise
        THEN [raise |-> TRUE, heap |-> h, id_mapper |-> <<>>, rooms_data |-> <<>>,
              context_shades |-> <<>>, mesh_shades |-> <<>>, prints |-> 0]
    ELSE [raise |-> (\E i \in 1..Len(rooms) : rooms[i].raise) \/ context.raise \/ mesh.raise,
          heap |-> h, id_mapper |-> conv.id_mapper,
          rooms_data |-> [i \in 1..Len(rooms) |-> rooms[i].text],
          context_shades |-> context.text, mesh_shades |-> mesh.text,
          prints |-> SeqSum([i \in 1..Len(rooms) |-> rooms[i].prints])
                     + context.prints + mesh.prints]

\* room_to_ies on every room of the copy (each call assigns the room's
\* display_name), then the shades and the shade meshes of the copy
WriterRooms(h, ref, conv, rooms, shade_thickness) ==
    WriterTexts(IF conv.raise THEN h
                ELSE [h EXCEPT ![ref].rooms = [i \in 1..Len(rooms) |-> rooms[i].room]],
                conv, rooms,
                shades_to_ies(h[ref].shades, shade_thickness),
                shade_meshes_to_ies(h[ref].shade_meshes))

\* _convert_room_ids on the copy, which it updates in place
WriterConverted(h, ref, conv, shade_thickness) ==
    WriterRooms([h EXCEPT ![ref] = conv.model], ref, conv,
                [i \in 1..Len(conv.model.rooms) |->
                    room_to_ies(conv.model.rooms[i], shade_thickness)],
                shade_thickness)

\* convert_to_units on the copy
WriterCopy(dup, shade_thickness) ==
    WriterConverted([dup.heap EXCEPT ![dup.ref] = ConvertToUnits(@, "Meters")], dup.ref,
                    convert_room_ids(ConvertToUnits(dup.heap[dup.ref], "Meters")),
                    shade_thickness)

\* the calls both entry points make, up to the shade texts
WriterBody(h, caller_ref, shade_thickness) ==
    WriterCopy(Duplicate(h, caller_ref), shade_thickness)

\* '\n'.join(gem_data) under the header 'COM GEM data file exported by
\* Pollination\\nANT', where the source text \\n is a backslash and the letter
\* n, not a line break
GemData(b) ==
    LET header   == <<"COM GEM data file exported by Pollination", "\\n", "ANT">>
        gem_data == <<header>> \o b.rooms_data \o <<b.context_shades, b.mesh_shades>>
    IN  [raise |-> b.raise, heap |-> b.heap, prints |-> b.prints,
         text |-> IF b.raise THEN <<>> ELSE Join(<<NL>>, gem_data)]

\* model_to_gem: [raise, heap, prints, text]
model_to_gem(h, caller_ref, shade_thickness) ==
    GemData(WriterBody(h, caller_ref, shade_thickness))

\* the paths model_to_ies writes: folder/name.gem and folder/name.im.json
out_file        == <<"folder", "/", "name", ".gem">>
mapper_out_file == <<"folder", "/", "name", ".im.json">>

\* a writer that opens the GEM file and writes the header before the texts
\* are made
GemFilesHeaderFirst(b, write_id_mapper, fs) ==
    LET header  == <<"COM GEM data file exported by Pollination", NL, "ANT", NL>>
        written == header \o (Join(<<NL>>, b.rooms_data) \o <<NL>>)
                   \o b.context_shades \o b.mesh_shades
        fs1 == DictSet(fs, out_file, written)
        fs2 == IF write_id_mapper THEN DictSet(fs1, mapper_out_file, b.id_mapper) ELSE fs1
    IN  [raise |-> b.raise, heap |-> b.heap, prints |-> b.prints,
         files |-> IF b.raise THEN DictSet(fs, out_file, header) ELSE fs2]

\* the four outf.write calls in order, then the id mapper file
GemFiles(b, write_id_mapper, fs) ==
    LET header  == <<"COM GEM data file exported by Pollination", NL, "ANT", NL>>
        written == header \o (Join(<<NL>>, b.rooms_data) \o <<NL>>)
                   \o b.context_shades \o b.mesh_shades
        fs1 == DictSet(fs, out_file, written)
        fs2 == IF write_id_mapper THEN DictSet(fs1, mapper_out_file, b.id_mapper) ELSE fs1
    IN  [raise |-> b.raise, heap |-> b.heap, prints |-> b.prints,
         files |-> IF b.raise THEN fs ELSE fs2]

\* model_to_ies: [raise, heap, prints, files]
model_to_ies(h, caller_ref, shade_thickness, write_id_mapper, fs) ==
    GemFiles(WriterBody(h, caller_ref, shade_thickness), write_id_mapper, fs)

----------------------------------------------------------------------------
(* Host objects and the inputs the entry points are called with            *)

Room(identifier, display_name, exclude_floor_area, faces, shades) ==
    [identifier |-> identifier, display_name |-> display_name,
     exclude_floor_area |-> exclude_floor_area, faces |-> faces, shades |-> shades]

Face(type_, geometry, apertures, doors, user_data, split) ==
    [type |-> type_, geometry |-> geometry, apertures |-> apertures, doors |-> doors,
     user_data |-> user_data, split |-> split]

SubFace(geometry) == [geometry |-> geometry, shades |-> <<>>]

Shade(identifier, display_name, geometry, is_detached, user_data) ==
    [identifier |-> identifier, display_name |-> display_name, geometry |-> geometry,
     is_detached |-> is_detached, user_data |-> user_data]

Model(units, rooms, shades, shade_meshes) ==
    [units |-> units, rooms |-> rooms, shades |-> shades, shade_meshes |-> shade_meshes]

\* bounds of the inputs
MaxRooms       == 3
MaxFaces       == 2
MaxShades      == 3
MaxModelRooms  == 2
MaxModelShades == 2
MaxMeshes      == 1

\* sequences over S of length lo..hi
SeqsOf(S, lo, hi) == UNION {[1..n -> S] : n \in lo..hi}

\* display names: code RM, code RM again in lower case and split over two
\* lines, code 1S, a name with an underscore, a non-ASCII code (alef, E-acute),
\* and one usable character
DisplayNames ==
    { <<"R", "o", "o", "m">>,
      <<"r", NL, SP, "m">>,
      <<"1", "s", "t">>,
      <<"R", "_", "1">>,
      <<"U+0627", "U+00E9", "t">>,
      <<"a", SP, "r">> }

\* identifiers the caller's objects have before a write
ObjectId(prefix, i) == <<prefix, "-", ToString(i)>>

NoSplit == [kind |-> "none", fragments |-> <<>>]

\* room faces: walls with and without apertures, doors and holes; air
\* boundaries, plain, with holes and with the import marker; floors and
\* ceilings with holes for each outcome of split_through_holes
FaceTemplates ==
    { Face("Wall", Face3D(<<1, 2, 6, 5>>, <<>>), <<>>, <<>>, <<>>, NoSplit),
      Face("Wall", Face3D(<<2, 3, 7, 6>>, <<>>),
           <<SubFace(Face3D(<<21, 22, 23, 24>>, <<>>))>>, <<>>, <<>>, NoSplit),
      Face("Wall", Face3D(<<3, 4, 8, 7>>, <<>>),
           <<SubFace(Face3D(<<21, 22, 23, 24>>, <<>>)), SubFace(Face3D(<<25, 26, 27>>, <<>>))>>,
           <<SubFace(Face3D(<<28, 29, 30, 31>>, <<>>))>>, <<>>, NoSplit),
      Face("Wall", Face3D(<<4, 1, 5, 8>>, << <<41, 42, 43>> >>),
           <<SubFace(Face3D(<<25, 26, 27>>, <<>>))>>,
           <<SubFace(Face3D(<<28, 29, 30, 31>>, <<>>))>>, <<>>, NoSplit),
      Face("AirBoundary", Face3D(<<1, 2, 6, 5>>, <<>>), <<>>, <<>>, <<>>, NoSplit),
      Face("AirBoundary", Face3D(<<5, 6, 7>>, <<>>), <<>>, <<>>, <<>>, NoSplit),
      Face("AirBoundary", Face3D(<<1, 2, 3, 4>>, << <<41, 42, 43>> >>),
           <<>>, <<>>, <<>>, NoSplit),
      Face("AirBoundary", Face3D(<<41, 42, 43, 44>>, <<>>), <<>>, <<>>,
           [__ies_import__ |-> TRUE], NoSplit),
      Face("Floor", Face3D(<<1, 2, 3, 4>>, <<>>), <<>>, <<>>, <<>>, NoSplit),
      Face("Floor", Face3D(<<1, 2, 3, 4>>, << <<41, 42, 43, 44>> >>), <<>>, <<>>, <<>>,
           [kind |-> "fragments",
            fragments |-> <<Face3D(<<1, 2, 3, 42, 41>>, <<>>),
                            Face3D(<<1, 41, 44, 43, 42, 3, 4>>, <<>>)>>]),
      Face("Floor", Face3D(<<1, 2, 3, 4>>, << <<41, 42, 43, 44>> >>), <<>>, <<>>, <<>>,
           [kind |-> "fragments",
            fragments |-> <<Face3D(<<1, 2, 3, 42, 41>>, <<>>),
                            Face3D(<<1, 41, 44, 99, 42, 3, 4>>, <<>>)>>]),
      Face("Floor", Face3D(<<1, 2, 3, 4>>, << <<41, 42, 43, 44>> >>), <<>>, <<>>, <<>>,
           [kind |-> "AssertionError3", fragments |-> <<>>]),
      Face("RoofCeiling", Face3D(<<5, 6, 7, 8>>, << <<45, 46, 47>> >>), <<>>, <<>>, <<>>,
           [kind |-> "AssertionError", fragments |-> <<>>]) }

\* shades: ungrouped, members of groups g1 and g2, import-only, an unset import
\* marker, and grouped tree and PV shades as the reader tags them
ShadeTemplates ==
    { Shade(<<>>, <<"S", "h">>, Face3D(<<1, 2, 3>>, <<>>), TRUE, <<>>),
      Shade(<<>>, <<"S", SP, NL, "h">>, Face3D(<<1, 2, 3, 4>>, <<>>), FALSE,
            [__group_id__ |-> <<"g", "1">>]),
      Shade(<<>>, <<"T", "w", "o">>, Face3D(<<3, 4, 5, 6>>, <<>>), FALSE,
            [__group_id__ |-> <<"g", "1">>]),
      Shade(<<>>, <<"S", "h">>, Face3D(<<5, 6, 7>>, <<>>), TRUE,
            [__group_id__ |-> <<"g", "2">>]),
      Shade(<<>>, <<"T", "r">>, Face3D(<<1, 2, 3, 4>>, <<>>), TRUE,
            [__gem_type__ |-> "tree", __gem_tree_type__ |-> 2, __ies_import__ |-> TRUE,
             __group_id__ |-> <<"g", "1">>]),
      Shade(<<>>, <<"S", "h">>, Face3D(<<1, 2, 3, 4>>, <<>>), TRUE,
            [__ies_import__ |-> FALSE]),
      Shade(<<>>, <<"T", "r">>, Face3D(<<5, 6, 7, 8>>, <<>>), TRUE,
            [__gem_type__ |-> "tree", __gem_tree_type__ |-> 2,
             __group_id__ |-> <<"T", "r">>]),
      Shade(<<>>, <<"P", "V">>, Face3D(<<5, 6, 7, 8>>, <<>>), TRUE,
            [__gem_type__ |-> "pv", __group_id__ |-> <<"P", "V">>]) }

\* a list of objects with the identifiers prefix-1, prefix-2, ... in list order
WithIds(objs, prefix) ==
    [i \in 1..Len(objs) |-> [objs[i] EXCEPT !.identifier = ObjectId(prefix, i)]]

ShadeMeshTemplate ==
    [identifier |-> <<>>, display_name |-> <<"M", "s", "h">>,
     geometry |-> [kind |-> "ShadeMesh", vertices |-> <<1, 2, 3, 4>>,
                   faces |-> << <<0, 1, 2>>, <<0, 2, 3>> >>],
     is_detached |-> TRUE, user_data |-> <<>>]

\* shade_thickness as passed: 0, or a positive thickness
Thicknesses == {0, 1}

NoCall == [fn |-> "none"]
NoRet  == [kind |-> "none"]

----------------------------------------------------------------------------
(* GEM_TYPES.from_info called on header fields                             *)

Categories == {0, 1, 2, 3}
Types      == {0, 1, 2, 3, 4, 202}
Subtypes   == {0, 1, 2001, 2002, 2101, 2102}
Keywords   == {"IES", "LAN", "PVP", "XYZ"}

InitTypes ==
    /\ call = NoCall
    /\ heap = <<>>
    /\ ret = NoRet
    /\ printed = 0
    /\ files = <<>>

\* from_info(category, type_, subtype, keyword) on any header fields
FromInfoCall ==
    /\ call.fn = "none"
    /\ \E c \in Categories, t \in Types, s \in Subtypes, k \in Keywords :
          /\ call' = [fn |-> "from_info", category |-> c, type |-> t,
                      subtype |-> s, keyword |-> k]
          /\ ret' = [kind |-> "return", value |-> from_info(c, t, s, k).member]
          /\ printed' = printed + from_info(c, t, s, k).prints
    /\ UNCHANGED <<heap, files>>

\* from_info on the header fields of a member, read through its accessors
FromHeaderCall ==
    /\ call.fn = "none"
    /\ \E m \in GEM_TYPES :
          /\ call' = [fn |-> "from_header", member |-> m]
          /\ ret' = [kind |-> "return",
                     value |-> from_info(category(m), type(m), subtype(m), keyword(m)).member]
          /\ printed' = printed
                        + from_info(category(m), type(m), subtype(m), keyword(m)).prints
    /\ UNCHANGED <<heap, files>>

NextTypes == FromInfoCall \/ FromHeaderCall

SpecTypes == InitTypes /\ [][NextTypes]_vars

\* the header fields of a member as its accessors give them
HeaderOf(m) == <<category(m), type(m), subtype(m), keyword(m)>>

CallHeader == <<call.category, call.type, call.subtype, call.keyword>>

\* C4: from_info never raises; for header fields that are not those of one of the
\* nine members it returns Shade and prints exactly one diagnostic, and for the
\* header fields of a member it returns that member and prints nothing.
C4_FromInfoTotal ==
    call.fn = "from_info" =>
        /\ ret.kind = "return"
        /\ ret.value \in GEM_TYPES
        /\ \A m \in GEM_TYPES : HeaderOf(m) = CallHeader => ret.value = m /\ printed = 0
        /\ (\A m \in GEM_TYPES : HeaderOf(m) # CallHeader) => ret.value = "Shade" /\ printed = 1

\* header fields of no member, classified as Shade with one diagnostic
C4_Witness ==
    /\ call.fn = "from_info"
    /\ \A m \in GEM_TYPES : HeaderOf(m) # CallHeader
    /\ ret.kind = "return" /\ ret.value = "Shade" /\ printed = 1

\* C5: classifying the header fields of a member gives the member back, for each
\* of the nine members: from_info(t.category(), t.type(), t.subtype(),
\* t.keyword()) = t, with no diagnostic.
C5_HeaderRoundTrip ==
    call.fn = "from_header" => ret.kind = "return" /\ ret.value = call.member /\ printed = 0

\* the header of Tree, which differs from that of Topography in the keyword only
C5_Witness ==
    call.fn = "from_header" /\ call.member = "Tree" /\ ret.value = "Tree"

----------------------------------------------------------------------------
(* _convert_room_ids called on a model                                     *)

\* rooms with the given display names, identified room-1, room-2, ...
RoomsNamed(names) ==
    WithIds([i \in 1..Len(names) |-> Room(<<>>, names[i], FALSE, <<>>, <<>>)], "room")

InitIds ==
    /\ call = NoCall
    /\ \E names \in SeqsOf(DisplayNames, 1, MaxRooms) :
          heap = <<Model("Meters", RoomsNamed(names), <<>>, <<>>)>>
    /\ ret = NoRet
    /\ printed = 0
    /\ files = <<>>

\* id_mapper = _convert_room_ids(model): the model is updated in place
ConvertRoomIdsCall ==
    /\ call.fn = "none"
    /\ call' = [fn |-> "_convert_room_ids", model |-> 1, before |-> heap[1]]
    /\ \E r \in {convert_room_ids(heap[1])} :
           /\ heap' = [heap EXCEPT ![1] = r.model]
           /\ ret' = IF r.raise THEN [kind |-> "raise", error |-> "ValueError"]
                     ELSE [kind |-> "return", value |-> r.id_mapper]
    /\ UNCHANGED <<printed, files>>

NextIds == ConvertRoomIdsCall

SpecIds == InitIds /\ [][NextIds]_vars

\* the 2-character code of a display name as the claim words it: the first two
\* characters left after removing vowels, whitespace and every character that
\* is neither a letter nor a digit, upper-cased
CodeOf(name) ==
    LET kept == SelectSeq(name, LAMBDA c : c \notin Vowels \cup Whitespace \cup NonWord \cup {"_"})
    IN  <<Upper(kept[1]), Upper(kept[2])>>

\* number of rooms before room i whose display name has the code of room i
EarlierSameCode(rooms, i) ==
    Cardinality({j \in 1..(i - 1) : CodeOf(rooms[j].display_name) = CodeOf(rooms[i].display_name)})

ConvertReturned == call.fn = "_convert_room_ids" /\ ret.kind = "return"

\* C1: every room gets <code><n as 6 digits>, where code is the first two
\* characters of the display name after removing vowels, whitespace and
\* non-alphanumeric characters and upper-casing, and n is the number of earlier
\* rooms with the same code.
C1_CodePlusCounter ==
    ConvertReturned =>
        \A i \in 1..Len(heap[1].rooms) :
            heap[1].rooms[i].identifier =
                CodeOf(call.before.rooms[i].display_name)
                \o Fmt06d(EarlierSameCode(call.before.rooms, i))

\* C2: after _convert_room_ids the returned mapping maps every room's original
\* identifier to the identifier the room now carries (the one room_to_ies
\* writes), for every room, RM fallback included.
C2_MapperMatchesRooms ==
    ConvertReturned =>
        \A i \in 1..Len(heap[1].rooms) :
            /\ call.before.rooms[i].identifier \in DOMAIN ret.value
            /\ ret.value[call.before.rooms[i].identifier] = heap[1].rooms[i].identifier

----------------------------------------------------------------------------
(* room_to_ies called on a room                                            *)

RoomNames == { <<"R", "o", "o", "m">>, <<"r", NL, SP, "m">> }

RoomShadeLists ==
    { <<>>,
      WithIds(<<Shade(<<>>, <<"S", "h">>, Face3D(<<1, 2, 3>>, <<>>), FALSE, <<>>)>>, "shade") }

InitRoom ==
    /\ call = NoCall
    /\ \E faces \in SeqsOf(FaceTemplates, 1, MaxFaces), name \in RoomNames,
          exclude \in BOOLEAN, shades \in RoomShadeLists :
          heap = <<Room(<<"R", "M">> \o Fmt06d(0), name, exclude, faces, shades)>>
    /\ ret = NoRet
    /\ printed = 0
    /\ files = <<>>

\* room_to_ies(room, shade_thickness)
RoomToIesCall ==
    /\ call.fn = "none"
    /\ \E th \in Thicknesses :
          \E r \in {room_to_ies(heap[1], th)} :
              /\ call' = [fn |-> "room_to_ies", room |-> 1, shade_thickness |-> th,
                          before |-> heap[1]]
              /\ heap' = [heap EXCEPT ![1] = r.room]
              /\ ret' = IF r.raise THEN [kind |-> "raise"]
                        ELSE [kind |-> "return", value |-> r.text]
              /\ printed' = printed + r.prints
    /\ UNCHANGED files

NextRoom == RoomToIesCall

SpecRoom == InitRoom /\ [][NextRoom]_vars

----------------------------------------------------------------------------
(* Reading a written record back, line by line                             *)

\* the number a formatted atom prints
AtomInt(a) == CHOOSE k \in 0..999 : ToString(k) = a

\* the line after the first line that holds only the given keyword
FieldAfter(lines, key) ==
    lines[(CHOOSE i \in 1..Len(lines) :
              lines[i] = <<key>> /\ \A j \in 1..(i - 1) : lines[j] # <<key>>) + 1]

IsBlockHeader(line) == Len(line) = 3 /\ line[2] = SP

RECURSIVE CountXY(_, _)
\* number of consecutive 2D vertex lines from line i on
CountXY(lines, i) ==
    IF i <= Len(lines) /\ lines[i] = <<"xy">> THEN 1 + CountXY(lines, i + 1) ELSE 0

RECURSIVE ParseBlocks(_, _)
\* the opening blocks from line i on: per block the two numbers of its header
\* line and the number of vertex lines under it; next is the line after them
ParseBlocks(lines, i) ==
    IF i <= Len(lines) /\ IsBlockHeader(lines[i]) THEN
        LET k    == CountXY(lines, i + 1)
            rest == ParseBlocks(lines, i + 1 + k)
        IN  [blocks |-> <<[count |-> AtomInt(lines[i][1]), type |-> AtomInt(lines[i][3]),
                           nlines |-> k]>> \o rest.blocks,
             next |-> rest.next]
    ELSE [blocks |-> <<>>, next |-> i]

RECURSIVE ParseFaceRecords(_, _)
\* the face records from line i on, up to the end of the record
ParseFaceRecords(lines, i) ==
    IF i + 1 > Len(lines) \/ lines[i] = <<>> \/ lines[i] = <<"LAYER">> THEN <<>>
    ELSE LET b == ParseBlocks(lines, i + 2)
         IN  <<[nindex |-> AtomInt(lines[i][1]),
                index |-> (Len(lines[i]) - 1) \div 2,
                open_count |-> AtomInt(lines[i + 1][1]),
                blocks |-> b.blocks]>> \o ParseFaceRecords(lines, b.next)

\* a vertex / face record as written by to_gem, starting at its LAYER line:
\* 12 header lines, the name line, the count line, the vertex lines, the faces
HeaderLines == 13

ParseRecord(lines) ==
    LET counts == lines[HeaderLines + 1]
        vc     == AtomInt(counts[1])
    IN  [name_line |-> lines[HeaderLines],
         subtype |-> FieldAfter(lines, "SUBTYPE"),
         vertices_count |-> vc,
         face_count |-> AtomInt(counts[3]),
         vertex_lines |-> Cardinality({i \in (HeaderLines + 2)..(HeaderLines + 1 + vc) :
                                          i <= Len(lines) /\ lines[i] = <<"xyz">>}),
         faces |-> ParseFaceRecords(lines, HeaderLines + 2 + vc)]

RoomReturned == call.fn = "room_to_ies" /\ ret.kind = "return"

\* the room record of the returned text
WrittenRoom == ParseRecord(Lines(ret.value))

\* number of face records room_to_ies is to write for a face
RecordsOf(face) ==
    IF IsImportAirBoundary(face) THEN 0
    ELSE IF face.type \in {"RoofCeiling", "Floor"} /\ has_holes(face.geometry)
            /\ face.split.kind = "fragments" THEN Len(face.split.fragments)
    ELSE 1

\* position, among the written face records, of the first record of face i
FirstRecordOf(faces, i) == 1 + SeqSum([j \in 1..(i - 1) |-> RecordsOf(faces[j])])

\* C3: a room that is excluded from floor area (a plenum, what the reader makes of
\* an UnconditionedSpace segment) is written with SUBTYPE 2002, every other room
\* with SUBTYPE 2001.
C3_PlenumHeader ==
    RoomReturned =>
        WrittenRoom.subtype =
            IF call.before.exclude_floor_area THEN <<Num(2002)>> ELSE <<Num(2001)>>

\* the written record of every air-boundary face that is not suppressed
AirBoundaryRecordsOf(written) ==
    LET recs == written.faces
    IN  { [face |-> call.before.faces[i],
           rec  |-> recs[FirstRecordOf(call.before.faces, i)]] :
          i \in { k \in 1..Len(call.before.faces) :
                     /\ call.before.faces[k].type = "AirBoundary"
                     /\ ~IsImportAirBoundary(call.before.faces[k]) } }

AirBoundaryRecords == AirBoundaryRecordsOf(WrittenRoom)

\* C9 as claimed: every written air-boundary face has an opening count of 1 and
\* its one opening is a type-2 block with as many vertex lines as the face
\* boundary has vertices.
C9_HoleIsBoundary ==
    RoomReturned =>
        \A e \in AirBoundaryRecords :
            /\ e.rec.open_count = 1
            /\ Len(e.rec.blocks) = 1
            /\ e.rec.blocks[1].type = 2
            /\ e.rec.blocks[1].count = Len(e.face.geometry.boundary)
            /\ e.rec.blocks[1].nlines = Len(e.face.geometry.boundary)

\* C9 (amended): every written air-boundary face has an opening count of 1 and its
\* one opening is a type-2 block with as many vertex lines as the face's vertex
\* loop: the boundary when the face has no holes, and the boundary plus, per
\* hole, the hole's vertices and the two vertices that join the loops otherwise.
C9_HoleIsVertexLoop ==
    RoomReturned =>
        \A e \in AirBoundaryRecords :
            LET g == e.face.geometry
                n == Len(g.boundary) + SeqSum([h \in 1..Len(g.holes) |-> Len(g.holes[h]) + 2])
            IN  /\ e.rec.open_count = 1
                /\ Len(e.rec.blocks) = 1
                /\ e.rec.blocks[1].type = 2
                /\ e.rec.blocks[1].count = n
                /\ e.rec.blocks[1].nlines = n
                /\ e.rec.index = Len(g.boundary)

\* a 4-vertex air boundary written after another face, as '4 2' and 4 lines
C9_Witness ==
    /\ RoomReturned
    /\ LET written == WrittenRoom
       IN  /\ Len(written.faces) > 1
           /\ \E e \in AirBoundaryRecordsOf(written) :
                 /\ e.face.geometry.holes = <<>>
                 /\ e.rec.blocks = <<[count |-> 4, type |-> 2, nlines |-> 4]>>

\* the face is an air boundary that carries the hole-import marker
MarkedAirBoundary(face) ==
    face.type = "AirBoundary" /\ "__ies_import__" \in DOMAIN face.user_data

HoledFloorOrCeiling(face) ==
    face.type \in {"RoofCeiling", "Floor"} /\ face.geometry.holes # <<>>

\* the vertex counts of the face records claimed for a face: none for a marked
\* air boundary, one per fragment for a holed floor or ceiling that is split,
\* the face itself otherwise
ClaimedRecords(face) ==
    IF MarkedAirBoundary(face) THEN <<>>
    ELSE IF HoledFloorOrCeiling(face) /\ face.split.kind = "fragments"
        THEN [k \in 1..Len(face.split.fragments) |-> Len(face.split.fragments[k].boundary)]
    ELSE <<Len(face.geometry.boundary)>>

\* the face records of the written room are the claimed ones, face by face
RecordsAsClaimed ==
    LET claimed == Flatten([i \in 1..Len(call.before.faces) |->
                               ClaimedRecords(call.before.faces[i])])
        written == WrittenRoom
    IN  /\ Len(written.faces) = Len(claimed)
        /\ written.face_count = Len(claimed)
        /\ \A k \in 1..Len(claimed) : written.faces[k].index = claimed[k]

\* C20 as claimed: room_to_ies writes no face record for a marked air boundary
\* and at least one for every other face: one per fragment when a holed floor
\* or ceiling is split, the unsplit face when the split fails.
C20_RecordPerFace ==
    call.fn = "room_to_ies" => (ret.kind = "return" /\ RecordsAsClaimed)

\* the split of a holed floor or ceiling fails with an assertion other than the
\* one on 3 vertices, or gives a fragment with a vertex the room does not have
FatalSplit(room) ==
    \E i \in 1..Len(room.faces) :
        LET face == room.faces[i]
        IN  /\ ~MarkedAirBoundary(face)
            /\ HoledFloorOrCeiling(face)
            /\ \/ face.split.kind = "AssertionError"
               \/ /\ face.split.kind = "fragments"
                  /\ \E k \in 1..Len(face.split.fragments) :
                        Range(face.split.fragments[k].boundary)
                           \ UNION {Range(room.faces[j].geometry.boundary)
                                      \cup UNION {Range(room.faces[j].geometry.holes[h]) :
                                                    h \in 1..Len(room.faces[j].geometry.holes)} :
                                    j \in 1..Len(room.faces)} # {}

\* C20 (amended): room_to_ies raises when a split fails with another assertion
\* or a fragment vertex is not found; when it returns, it has written no face
\* record for a marked air boundary and, for every other face, one record per
\* fragment of a split holed floor or ceiling and else the face itself, the
\* unsplit face too when the split fails on 3 vertices.
C20_RecordPerFaceOnReturn ==
    call.fn = "room_to_ies" =>
        /\ FatalSplit(call.before) => ret.kind = "raise"
        /\ ret.kind = "return" => RecordsAsClaimed

\* a room with a marked air boundary and a split floor is written
C20_Witness ==
    /\ RoomReturned
    /\ \E i \in 1..Len(call.before.faces) : MarkedAirBoundary(call.before.faces[i])
    /\ \E i \in 1..Len(call.before.faces) :
          Len(ClaimedRecords(call.before.faces[i])) = 2
    /\ Len(WrittenRoom.faces) = 2

\* position of an opening type in the claimed order: apertures, doors, holes
ClaimedRank(t) == t

\* position of an opening type in the order written: holes, apertures, doors
WrittenRank(t) == IF t = 2 THEN 0 ELSE t + 1

\* the blocks of every face record are well formed: the count line equals the
\* number of blocks and every block has the vertex lines its header announces
BlocksWellFormed(rec) ==
    /\ rec.open_count = Len(rec.blocks)
    /\ \A b \in 1..Len(rec.blocks) :
          rec.blocks[b].type \in {0, 1, 2} /\ rec.blocks[b].count = rec.blocks[b].nlines

\* C10 as claimed: within a face record the opening blocks come in the order
\* apertures (0), doors (1), holes (2), each under its '{count} {type}' line, and
\* the opening count equals the number of blocks.
C10_AperturesDoorsHoles ==
    RoomReturned =>
        LET recs == WrittenRoom.faces
        IN  \A f \in 1..Len(recs) :
                LET blocks == recs[f].blocks
                IN  /\ BlocksWellFormed(recs[f])
                    /\ \A a, b \in 1..Len(blocks) :
                          a < b => ClaimedRank(blocks[a].type) <= ClaimedRank(blocks[b].type)

\* C10 (amended): within a face record the opening blocks come in the order
\* holes (2), apertures (0), doors (1), each under its '{count} {type}' line, and
\* the opening count equals the number of blocks.
C10_HolesAperturesDoors ==
    RoomReturned =>
        LET recs == WrittenRoom.faces
        IN  \A f \in 1..Len(recs) :
                LET blocks == recs[f].blocks
                IN  /\ BlocksWellFormed(recs[f])
                    /\ \A a, b \in 1..Len(blocks) :
                          a < b => WrittenRank(blocks[a].type) <= WrittenRank(blocks[b].type)

\* a face record with a hole, an aperture and a door
C10_Witness ==
    /\ RoomReturned
    /\ LET recs == WrittenRoom.faces
       IN  \E f \in 1..Len(recs) :
              /\ Len(recs[f].blocks) = 3
              /\ [b \in 1..3 |-> recs[f].blocks[b].type] = <<2, 0, 1>>

----------------------------------------------------------------------------
(* shades_to_ies called on a list of shades                                *)

InitShades ==
    /\ call = NoCall
    /\ \E shades \in SeqsOf(ShadeTemplates, 0, MaxShades) :
          heap = <<WithIds(shades, "shade")>>
    /\ ret = NoRet
    /\ printed = 0
    /\ files = <<>>

\* shades_to_ies(shades, thickness)
ShadesToIesCall ==
    /\ call.fn = "none"
    /\ \E th \in Thicknesses :
          \E r \in {shades_to_ies(heap[1], th)} :
              /\ call' = [fn |-> "shades_to_ies", shades |-> 1, thickness |-> th]
              /\ ret' = IF r.raise THEN [kind |-> "raise", error |-> "AttributeError"]
                        ELSE [kind |-> "return", value |-> r.text]
              /\ printed' = printed + r.prints
    /\ UNCHANGED <<heap, files>>

NextShades == ShadesToIesCall

SpecShades == InitShades /\ [][NextShades]_vars

\* the identifier between the brackets of a name line
NameId(line) ==
    LET p == CHOOSE i \in 1..Len(line) :
                 line[i] = "[" /\ \A j \in (i + 1)..Len(line) : line[j] # "["
    IN  SubSeq(line, p + 1, Len(line) - 1)

\* the records of a text, in order: every line that holds only LAYER starts one;
\* per record the identifier of its name line and the line after the name line
RecordsIn(lines) ==
    LET at == SelectSeq([i \in 1..Len(lines) |-> i], LAMBDA i : lines[i] = <<"LAYER">>)
    IN  [k \in 1..Len(at) |->
            [identifier |-> NameId(lines[at[k] + HeaderLines - 1]),
             counts     |-> lines[at[k] + HeaderLines]]]

\* the shades of the list that carry no import marker, by position
Remaining(shades) == {i \in 1..Len(shades) : ~IsImportShade(shades[i])}

\* the remaining shades that are written together with shade i
WrittenWith(shades, i) ==
    IF "__group_id__" \notin DOMAIN shades[i].user_data THEN {i}
    ELSE {j \in Remaining(shades) :
             /\ "__group_id__" \in DOMAIN shades[j].user_data
             /\ shades[j].user_data["__group_id__"] = shades[i].user_data["__group_id__"]}

\* the first shade of a set of positions
FirstOf(positions) == CHOOSE i \in positions : \A j \in positions : i <= j

\* C8: shades_to_ies accounts for every input shade exactly once: a shade with
\* the import marker is in no record, every remaining shade without a group id or
\* alone in its group has a record of its own, and every group id carried by two
\* or more remaining shades has exactly one merged record with one face per shade.
C8_EveryShadeOnce ==
    call.fn = "shades_to_ies" =>
        /\ ret.kind = "return"
        /\ LET shades == heap[1]
               recs   == RecordsIn(Lines(ret.value))
               sets   == {WrittenWith(shades, i) : i \in Remaining(shades)}
           IN  /\ Len(recs) = Cardinality(sets)
               /\ \A g \in sets :
                     LET mine == {k \in 1..Len(recs) :
                                     recs[k].identifier = shades[FirstOf(g)].identifier}
                     IN  /\ Cardinality(mine) = 1
                         /\ Cardinality(g) >= 2 =>
                               \A k \in mine : recs[k].counts[3] = Num(Cardinality(g))

\* the records of a text with their bodies: per record the identifier of its
\* name line and the non-empty lines between the name line and the next record
RecordBodies(lines) ==
    LET at == SelectSeq([i \in 1..Len(lines) |-> i], LAMBDA i : lines[i] = <<"LAYER">>)
    IN  [k \in 1..Len(at) |->
            [identifier |-> NameId(lines[at[k] + HeaderLines - 1]),
             body |-> SelectSeq(SubSeq(lines, at[k] + HeaderLines,
                                       IF k = Len(at) THEN Len(lines) ELSE at[k + 1] - 1),
                                LAMBDA l : l # <<>>)]]

\* the remaining shades that from_user_data classifies as tree or PV
SpecialShades(shades) ==
    {i \in Remaining(shades) : from_user_data(shades[i].user_data) \in {"Tree", "PV"}}

\* the compact body of a tree or PV shade: the parameter line, under the
\* '2D Tree N' line for a tree
CompactBody(shade) ==
    IF from_user_data(shade.user_data) = "PV" THEN << <<"pv_info">> >>
    ELSE << <<"2D", SP, "Tree", SP, Num(DictGet(shade.user_data, "__gem_tree_type__", 1))>>,
            <<"tree_info">> >>

\* C11: every remaining shade tagged tree or pv is written in the compact form
\* (header, the '2D Tree N' line for a tree, one parameter line), never as a
\* vertex / face record, and the write does not fail, for a zero and a non-zero
\* thickness, for a shade on its own and for one of a group.
C11_SpecialShadesCompact ==
    call.fn = "shades_to_ies" =>
        /\ SpecialShades(heap[1]) # {} => ret.kind = "return"
        /\ ret.kind = "return" =>
              LET shades == heap[1]
                  recs   == RecordBodies(Lines(ret.value))
              IN  \A i \in SpecialShades(shades) :
                     \E k \in 1..Len(recs) :
                        /\ recs[k].identifier = shades[FirstOf(WrittenWith(shades, i))].identifier
                        /\ recs[k].body = CompactBody(shades[i])

----------------------------------------------------------------------------
(* model_to_gem and model_to_ies called on a model                         *)

\* rooms of a model: a plain room, a plenum whose name runs over two lines with
\* an air boundary and a shade of its own, a room with a non-ASCII name, and a
\* room whose name leaves one character to _gen_ve_id
ModelRooms ==
    { Room(<<>>, <<"R", "o", "o", "m">>, FALSE,
           <<Face("Wall", Face3D(<<1, 2, 6, 5>>, <<>>), <<>>, <<>>, <<>>, NoSplit)>>, <<>>),
      Room(<<>>, <<"r", NL, SP, "m">>, TRUE,
           <<Face("AirBoundary", Face3D(<<1, 2, 6, 5>>, <<>>), <<>>, <<>>, <<>>, NoSplit)>>,
           <<Shade(<<"r", "s">>, <<"S", "h">>, Face3D(<<1, 2, 3>>, <<>>), FALSE, <<>>)>>),
      Room(<<>>, <<"U+0627", "U+00E9", "t">>, FALSE,
           <<Face("Floor", Face3D(<<1, 2, 3, 4>>, <<>>), <<>>, <<>>, <<>>, NoSplit)>>, <<>>),
      Room(<<>>, <<"a", SP, "r">>, FALSE,
           <<Face("Wall", Face3D(<<1, 2, 6, 5>>, <<>>), <<>>, <<>>, <<>>, NoSplit)>>, <<>>) }

\* orphaned shades of a model: one ungrouped and two of one group
ModelShades ==
    { Shade(<<>>, <<"S", "h">>, Face3D(<<1, 2, 3>>, <<>>), TRUE, <<>>),
      Shade(<<>>, <<"S", SP, NL, "h">>, Face3D(<<1, 2, 3, 4>>, <<>>), FALSE,
            [__group_id__ |-> <<"g", "1">>]),
      Shade(<<>>, <<"T", "w", "o">>, Face3D(<<3, 4, 5, 6>>, <<>>), FALSE,
            [__group_id__ |-> <<"g", "1">>]) }

Init ==
    /\ call = NoCall
    /\ \E units \in {"Meters", "Feet"},
          rooms \in SeqsOf(ModelRooms, 0, MaxModelRooms),
          shades \in SeqsOf(ModelShades, 0, MaxModelShades),
          meshes \in SeqsOf({ShadeMeshTemplate}, 0, MaxMeshes) :
          heap = <<Model(units, WithIds(rooms, "room"), WithIds(shades, "shade"),
                         WithIds(meshes, "mesh"))>>
    /\ ret = NoRet
    /\ printed = 0
    /\ files = <<>>

\* text = model_to_gem(model, shade_thickness)
ModelToGemCall ==
    /\ call.fn = "none"
    /\ \E th \in Thicknesses :
          \E r \in {model_to_gem(heap, 1, th)} :
              /\ call' = [fn |-> "model_to_gem", model |-> 1, shade_thickness |-> th,
                          before |-> heap[1]]
              /\ heap' = r.heap
              /\ ret' = IF r.raise THEN [kind |-> "raise"]
                        ELSE [kind |-> "return", value |-> r.text]
              /\ printed' = printed + r.prints
    /\ UNCHANGED files

\* out_file = model_to_ies(model, folder, name, shade_thickness, write_id_mapper)
ModelToIesCall ==
    /\ call.fn = "none"
    /\ \E th \in Thicknesses, write_id_mapper \in BOOLEAN :
          \E r \in {model_to_ies(heap, 1, th, write_id_mapper, files)} :
              /\ call' = [fn |-> "model_to_ies", model |-> 1, shade_thickness |-> th,
                          write_id_mapper |-> write_id_mapper, before |-> heap[1]]
              /\ heap' = r.heap
              /\ ret' = IF r.raise THEN [kind |-> "raise"]
                        ELSE [kind |-> "return", value |-> out_file]
              /\ printed' = printed + r.prints
              /\ files' = r.files

Next == ModelToGemCall \/ ModelToIesCall

Spec == Init /\ [][Next]_vars

ModelCalled == call.fn \in {"model_to_gem", "model_to_ies"}

\* C6: after model_to_gem or model_to_ies the caller's model is what it was
\* before the call: every room has the identifier and the display name it had,
\* and the model has its original units.
C6_CallerModelUnchanged ==
    ModelCalled =>
        /\ heap[call.model] = call.before
        /\ heap[call.model].units = call.before.units
        /\ \A i \in 1..Len(call.before.rooms) :
              /\ heap[call.model].rooms[i].identifier = call.before.rooms[i].identifier
              /\ heap[call.model].rooms[i].display_name = call.before.rooms[i].display_name

\* a call that returned after converting the units, an identifier and a display
\* name on its working copy
C6_Witness ==
    /\ ModelCalled
    /\ ret.kind = "return"
    /\ Len(heap) = 2
    /\ call.before.units = "Feet" /\ heap[2].units = "Meters"
    /\ \E i \in 1..Len(call.before.rooms) :
          /\ heap[2].rooms[i].identifier # call.before.rooms[i].identifier
          /\ heap[2].rooms[i].display_name # call.before.rooms[i].display_name

\* the text a call produced: the returned string, or the content of the file
WrittenText == IF call.fn = "model_to_gem" THEN ret.value ELSE files[ret.value]

\* identifiers of the records shades_to_ies is to write for a list of shades:
\* the shades written on their own, then the first shade of every group
ShadeRecordIds(shades) ==
    LET g       == GroupLoop(shades, 1, <<>>, <<>>)
        singles == SelectSeq(g.shade_groups, LAMBDA e : Len(e.value) = 1)
        groups  == SelectSeq(g.shade_groups, LAMBDA e : Len(e.value) # 1)
    IN  [k \in 1..Len(g.no_groups) |-> g.no_groups[k].identifier]
        \o [k \in 1..Len(singles) |-> singles[k].value[1].identifier]
        \o [k \in 1..Len(groups) |-> groups[k].value[1].identifier]

\* identifiers of the records of a written model, in the order claimed: per
\* room the room and its shades, then the orphaned shades, then the shade meshes
ModelRecordIds(model) ==
    Flatten([i \in 1..Len(model.rooms) |->
                <<model.rooms[i].identifier>> \o ShadeRecordIds(RoomShades(model.rooms[i]))])
    \o ShadeRecordIds(model.shades)
    \o [k \in 1..Len(model.shade_meshes) |-> model.shade_meshes[k].identifier]

\* C7: the text of either variant is the two-line file header, then one block
\* per room in model room order, then the orphaned shade records, then the
\* shade-mesh records, every part starting on a line of its own.
C7_HeaderRoomsShadesMeshes ==
    (ModelCalled /\ ret.kind = "return") =>
        LET lines == Lines(WrittenText)
        IN  /\ Len(lines) >= 2
            /\ lines[1] = <<"COM GEM data file exported by Pollination">>
            /\ lines[2] = <<"ANT">>
            /\ \A i \in 1..Len(lines) : "LAYER" \in Range(lines[i]) => lines[i] = <<"LAYER">>
            /\ [k \in 1..Len(RecordsIn(lines)) |-> RecordsIn(lines)[k].identifier]
                  = ModelRecordIds(heap[Len(heap)])

----------------------------------------------------------------------------
(* honeybee_ies/reader.py: names and identifiers                           *)

RECURSIVE StrReplace(_, _)
\* text.replace(pat, ''): every occurrence of pat removed, left to right
StrReplace(text, pat) ==
    IF Len(text) < Len(pat) \/ pat = <<>> THEN text
    ELSE IF SubSeq(text, 1, Len(pat)) = pat
        THEN StrReplace(SubSeq(text, Len(pat) + 1, Len(text)), pat)
    ELSE <<text[1]>> \o StrReplace(Tail(text), pat)

\* where re.findall(r'\s\[(.*)\]$') matches in a one-line name: the positions of
\* a whitespace character followed by '[', provided the name ends with ']'
IdTagStarts(display_name) ==
    {p \in 1..(Len(display_name) - 2) :
        /\ display_name[p] \in Whitespace
        /\ display_name[p + 1] = "["
        /\ display_name[Len(display_name)] = "]"}

\* _get_id: the first match starts at the leftmost position and its greedy
\* group runs to the last character before the closing ']'; None is <<>>
get_id(display_name) ==
    IF IdTagStarts(display_name) = {} THEN <<>>
    ELSE LET p == CHOOSE q \in IdTagStarts(display_name) :
                      \A r \in IdTagStarts(display_name) : q <= r
         IN  SubSeq(display_name, p + 2, Len(display_name) - 1)

\* honeybee's clean_string: spaces to underscores, illegal characters dropped;
\* AssertionError when nothing is left
clean_string(value) ==
    LET under == [i \in 1..Len(value) |-> IF value[i] = SP THEN "_" ELSE value[i]]
        val   == SelectSeq(under, LAMBDA c : c \notin IllegalIdChars)
    IN  [raise |-> val = <<>>, value |-> val]

\* the name and identifier _update_name assigns once id_ is known
NameFromId(obj, display_name, id_, truthy, count) ==
    IF id_ # <<>> THEN
        LET identifier == IF truthy THEN id_ \o <<"-", count>> ELSE id_
        IN  [raise |-> ~valid_string(identifier),
             obj |-> [obj EXCEPT !.identifier = identifier,
                                 !.display_name =
                                     StrReplace(display_name, <<SP, "[">> \o id_ \o <<"]">>)]]
    ELSE [raise |-> FALSE, obj |-> [obj EXCEPT !.display_name = display_name]]

\* _update_name(obj, display_name, count): count is "None", "0" or "1", of which
\* only "1" is true in a condition; is_room is isinstance(obj, Room)
update_name(obj, display_name, count, is_room) ==
    LET truthy == count = "1"
        group  == clean_string(IF truthy THEN display_name
                               ELSE display_name \o <<"-", count>>)
        tagged == IF is_room THEN obj
                  ELSE [obj EXCEPT !.user_data = DictSet(@, "__group_id__", group.value)]
        named  == NameFromId(tagged, display_name, get_id(display_name), truthy, count)
    IN  IF ~is_room /\ group.raise THEN [raise |-> TRUE, obj |-> obj] ELSE named

\* _create_shade: a Shade under a fresh identifier, which is also its name
create_shade(boundary, holes, is_detached, user_data) ==
    Shade(<<"uuid">>, <<"uuid">>, Face3D(boundary, holes), is_detached, user_data)

----------------------------------------------------------------------------
(* honeybee_ies/reader.py: a segment, from text to lines and numbers       *)

\* the numbers that appear in a GEM text: counts and indexes, and header values
Numerals == 0..64 \cup {202, 2001, 2002, 2101, 2102}

\* int(token): the number a token prints, -1 for a token int() rejects
IntOf(a) ==
    IF \E k \in Numerals : ToString(k) = a
        THEN CHOOSE k \in Numerals : ToString(k) = a
        ELSE -1

\* line.split() of a line of numbers: its tokens
Tokens(line) == SelectSeq(line, LAMBDA a : a \notin Whitespace)

\* the characters of a keyword
KeywordChars(keyword_) ==
    CASE keyword_ = "IES" -> <<"I", "E", "S">>
      [] keyword_ = "LAN" -> <<"L", "A", "N">>
      [] keyword_ = "PVP" -> <<"P", "V", "P">>

\* the keyword is in the text at position i: as the keyword of a name line, or
\* spelled by the characters of a name or an identifier
HasAt(text, i, keyword_) ==
    \/ text[i] = keyword_
    \/ i + 2 <= Len(text) /\ SubSeq(text, i, i + 2) = KeywordChars(keyword_)

\* 'keyword in segment'
Contains(text, keyword_) == \E i \in 1..Len(text) : HasAt(text, i, keyword_)

\* the for / else of _parse_gem_segment: the first keyword the segment contains,
\* "None" when the loop ends without a break
SegmentKeyword(segment) ==
    IF Contains(segment, "IES") THEN "IES"
    ELSE IF Contains(segment, "LAN") THEN "LAN"
    ELSE IF Contains(segment, "PVP") THEN "PVP"
    ELSE "None"

\* text.split(sep) for a separator of several atoms that starts with a line
\* break (occurrences cannot overlap)
SplitOnSeq(text, sep) ==
    LET at == SelectSeq([i \in 1..Len(text) |-> i],
                        LAMBDA i : /\ i + Len(sep) - 1 <= Len(text)
                                   /\ SubSeq(text, i, i + Len(sep) - 1) = sep)
    IN  [k \in 1..(Len(at) + 1) |->
            SubSeq(text,
                   IF k = 1 THEN 1 ELSE at[k - 1] + Len(sep),
                   IF k = Len(at) + 1 THEN Len(text) ELSE at[k] - 1)]

\* the first line that holds only the key and has a line after it, 0 if none
KeyLine(lines, key) ==
    IF \E i \in 1..(Len(lines) - 1) : lines[i] = <<key>>
        THEN CHOOSE i \in 1..(Len(lines) - 1) :
                 lines[i] = <<key>> /\ \A j \in 1..(i - 1) : lines[j] # <<key>>
        ELSE 0

\* int(re.findall(r'^KEY\n(\d*)', info, re.MULTILINE)[0]): the number that
\* starts the line under the first KEY line; -1 for the IndexError of no match
\* and the ValueError of int('')
HeaderField(lines, key) ==
    IF KeyLine(lines, key) = 0 THEN -1
    ELSE IF lines[KeyLine(lines, key) + 1] = <<>> THEN -1
    ELSE IntOf(lines[KeyLine(lines, key) + 1][1])

\* _gem_object_type(info, keyword): [raise, member, prints]
gem_object_type(info, keyword_) ==
    LET lines     == Lines(info)
        type_     == HeaderField(lines, "TYPE")
        subtype_  == HeaderField(lines, "SUBTYPE")
        category_ == HeaderField(lines, "CATEGORY")
        found     == from_info(category_, type_, subtype_, keyword_)
    IN  [raise |-> type_ < 0 \/ subtype_ < 0 \/ category_ < 0,
         member |-> found.member, prints |-> found.prints]

\* the iterator content: the lines of the part under the header that are not
\* blank
Content(segments) ==
    SelectSeq(Lines(segments), LAMBDA lin : \E i \in 1..Len(lin) : lin[i] \notin Whitespace)

----------------------------------------------------------------------------
(* honeybee_ies/reader.py: the vertex / face body of a segment.  An error   *)
(* is a string: "" for none, else what was raised.                         *)

IsCoordLine(line) == line = <<"xy">> \/ line = <<"xyz">>

RECURSIVE ReadBlocks(_, _, _)
\* the loop over the openings of a face from content[pos] on: _opening_from_ies
\* reads the 'ver_count opening_type' line and ver_count vertex lines, and the
\* caller raises on a type that is not 0, 1 or 2 before it reads the next one
ReadBlocks(content, pos, n) ==
    IF n = 0 THEN [err |-> "", next |-> pos, blocks |-> <<>>]
    ELSE IF pos > Len(content) THEN [err |-> "StopIteration", next |-> pos, blocks |-> <<>>]
    ELSE
      LET head == Tokens(content[pos])
          vc   == IntOf(head[1])
      IN  IF Len(head) # 2 THEN [err |-> "ValueError", next |-> pos, blocks |-> <<>>]
          ELSE IF vc < 0 \/ IntOf(head[2]) < 0
              THEN [err |-> "ValueError", next |-> pos, blocks |-> <<>>]
          ELSE IF pos + vc > Len(content)
              THEN [err |-> "StopIteration", next |-> pos, blocks |-> <<>>]
          ELSE IF \E j \in 1..vc : ~IsCoordLine(content[pos + j])
              THEN [err |-> "ValueError", next |-> pos, blocks |-> <<>>]
          ELSE IF IntOf(head[2]) \notin {0, 1, 2}
              THEN [err |-> "Unsupported opening type", next |-> pos, blocks |-> <<>>]
          ELSE
            LET rest == ReadBlocks(content, pos + vc + 1, n - 1)
            IN  [err |-> rest.err, next |-> rest.next,
                 blocks |-> <<[type |-> IntOf(head[2]), count |-> vc]>> \o rest.blocks]

\* vertices[int(i) - 1] for the tokens of a face line after the first: the
\* vertex named by its line number (index 0 is vertices[-1], the last one);
\* 0 for a token that is no number or is past the list
BoundaryOf(line, ver_count) ==
    LET toks == Tokens(line)
    IN  [k \in 1..(Len(toks) - 1) |->
            IF IntOf(toks[k + 1]) < 0 \/ IntOf(toks[k + 1]) > ver_count THEN 0
            ELSE IF IntOf(toks[k + 1]) = 0 THEN ver_count
            ELSE IntOf(toks[k + 1])]

\* the opening count line: int(next(content)), -1 when int() rejects the line
CountLine(content, pos) ==
    IF pos > Len(content) THEN -1
    ELSE IF Len(Tokens(content[pos])) # 1 THEN -1
    ELSE IntOf(Tokens(content[pos])[1])

RECURSIVE ReadFaces(_, _, _, _)
\* the 'create faces' loop as far as the text goes: per face its boundary and
\* its opening blocks
ReadFaces(content, pos, n, ver_count) ==
    IF n = 0 THEN [err |-> "", next |-> pos, faces |-> <<>>]
    ELSE IF pos > Len(content) THEN [err |-> "StopIteration", next |-> pos, faces |-> <<>>]
    ELSE
      LET boundary == BoundaryOf(content[pos], ver_count)
          count    == CountLine(content, pos + 1)
      IN  IF 0 \in Range(boundary) \/ Len(boundary) < 3 \/ count < 0
              THEN [err |-> "ValueError", next |-> pos, faces |-> <<>>]
          ELSE
            LET b == ReadBlocks(content, pos + 2, count)
            IN  IF b.err # "" THEN [err |-> b.err, next |-> pos, faces |-> <<>>]
                ELSE LET rest == ReadFaces(content, b.next, n - 1, ver_count)
                     IN  [err |-> rest.err, next |-> rest.next,
                          faces |-> <<[boundary |-> boundary, blocks |-> b.blocks]>>
                                    \o rest.faces]

\* the shade-mesh loop: "mesh" with the faces as 0-based index lists, "faces"
\* when a face has an opening or more than 4 vertices and the segment is parsed
\* again face by face, or an error
MeshScan(content, pos, n, ver_count) ==
    LET at(k)    == pos + 2 * (k - 1)
        short(k) == at(k) + 1 > Len(content)
        face(k)  == [j \in 1..(Len(Tokens(content[at(k)])) - 1) |->
                        IntOf(Tokens(content[at(k)])[j + 1]) - 1]
        bad(k)   == short(k) \/ CountLine(content, at(k) + 1) < 0
                    \/ \E j \in 1..Len(face(k)) : face(k)[j] < 0
        again(k) == ~bad(k) /\ (CountLine(content, at(k) + 1) > 0 \/ Len(face(k)) > 4)
        stop     == {k \in 1..n : bad(k) \/ again(k)}
        first    == CHOOSE k \in stop : \A j \in stop : k <= j
    IN  IF stop = {} THEN [kind |-> "mesh", faces |-> [k \in 1..n |-> face(k)]]
        ELSE IF again(first) THEN [kind |-> "faces", faces |-> <<>>]
        ELSE [kind |-> "error", faces |-> <<>>]

----------------------------------------------------------------------------
(* honeybee_ies/reader.py: from a parsed face to host objects.  The text    *)
(* carries no coordinates ("xyz", "xy"); what the geometry library computes *)
(* from the coordinates of face record f is geo[f]:                        *)
(*   type    the face type honeybee derives from the normal                *)
(*   ground  the default boundary condition is Ground                      *)
(*   area    the area of the boundary                                      *)
(*   areas   per opening block, the area of its polygon                    *)
(*   pieces  the faces of coplanar_difference(boundary, holes): per face   *)
(*           its boundary and the numbers of the holes that lie inside it  *)
(*   split   what split_through_holes does on the face with holes          *)

NoGeo ==
    [type |-> "Wall", ground |-> FALSE, area |-> 100, areas |-> <<>>,
     pieces |-> <<>>, split |-> NoSplit]

GeoAt(geo, f) == IF f \in DOMAIN geo THEN geo[f] ELSE NoGeo

\* the vertices of opening o of face f, under fresh point names
OpeningPoints(f, o, count) == [j \in 1..count |-> 100 * f + 10 * o + j]

\* the type tests with 0 and 1 exchanged: a type-1 block taken for an aperture
BlockIndexesDoorsFirst(blocks, t) ==
    SelectSeq([o \in 1..Len(blocks) |-> o],
              LAMBDA o : blocks[o].type = (IF t = 0 THEN 1 ELSE IF t = 1 THEN 0 ELSE t))

\* the positions of the blocks of one opening type, in order
BlockIndexes(blocks, t) ==
    SelectSeq([o \in 1..Len(blocks) |-> o], LAMBDA o : blocks[o].type = t)

\* the vertex lists of the blocks of one type: apertures (0), doors (1), holes (2)
OpeningsOf(f, blocks, t) ==
    [k \in 1..Len(BlockIndexes(blocks, t)) |->
        OpeningPoints(f, BlockIndexes(blocks, t)[k], blocks[BlockIndexes(blocks, t)[k]].count)]

\* holes_area: the sum of opening_area over the holes
HolesArea(blocks, g) ==
    SeqSum([k \in 1..Len(BlockIndexes(blocks, 2)) |->
               IF BlockIndexes(blocks, 2)[k] \in DOMAIN g.areas
               THEN g.areas[BlockIndexes(blocks, 2)[k]] ELSE 0])

\* a threshold that keeps the parent face unless the holes cover all of it
MostlyHolesAll(holes_area, boundary_area) == holes_area >= boundary_area

\* holes_area >= 0.98 * boundary_area
MostlyHoles(holes_area, boundary_area) == 100 * holes_area >= 98 * boundary_area

AirBoundaryFace(points, user_data) ==
    Face("AirBoundary", Face3D(points, <<>>), <<>>, <<>>, user_data, NoSplit)

\* a face loop that marks the air boundary of every hole, absorbed or not
PartlyHolesAllMarked(holes, g) ==
    [h \in 1..Len(holes) |-> AirBoundaryFace(holes[h], [__ies_import__ |-> TRUE])]
    \o [p \in 1..Len(g.pieces) |->
           Face(g.type, Face3D(g.pieces[p].boundary, <<>>), <<>>, <<>>, <<>>, g.split)]

\* the faces added when only part of the face is holes: an air boundary for
\* every hole that is inside no base face, a marked air boundary for every hole
\* that is inside one, and the base faces
PartlyHoles(holes, g) ==
    LET within(p) == SelectSeq([h \in 1..Len(holes) |-> h],
                               LAMBDA h : h \in Range(g.pieces[p].holes))
        tracked   == UNION {Range(within(p)) : p \in 1..Len(g.pieces)}
        side      == SelectSeq([h \in 1..Len(holes) |-> h], LAMBDA h : h \notin tracked)
        flattened == Flatten([p \in 1..Len(g.pieces) |-> within(p)])
    IN  [k \in 1..Len(side) |-> AirBoundaryFace(holes[side[k]], <<>>)]
        \o [k \in 1..Len(flattened) |->
               AirBoundaryFace(holes[flattened[k]], [__ies_import__ |-> TRUE])]
        \o [p \in 1..Len(g.pieces) |->
               Face(g.type,
                    Face3D(g.pieces[p].boundary,
                           [k \in 1..Len(within(p)) |-> holes[within(p)[k]]]),
                    <<>>, <<>>, <<>>, g.split)]

\* the boundary condition honeybee gives a new Face: Ground when the face lies
\* at or below the ground, else Outdoors.  A face and the faces cut from it lie
\* on the same side of the ground.
get_bc_from_position(ground) == IF ground THEN "Ground" ELSE "Outdoors"

\* a face loop that leaves the boundary condition as honeybee set it
FaceBoundaryConditionKept(has_sub_faces, ground) == get_bc_from_position(ground)

\* the boundary condition of the parent face after 'if apertures or doors':
\* a Ground is changed to Outdoors
FaceBoundaryCondition(has_sub_faces, ground) ==
    IF has_sub_faces /\ get_bc_from_position(ground) = "Ground" THEN "Outdoors"
    ELSE get_bc_from_position(ground)

\* a Face of honeybee with its boundary condition
WithBoundaryCondition(face, boundary_condition) ==
    [k \in DOMAIN face \cup {"boundary_condition"} |->
        IF k = "boundary_condition" THEN boundary_condition ELSE face[k]]

\* the Space / UnconditionedSpace branch for one face: the faces it appends
RoomFacesFromIes(f, parsed, g) ==
    LET holes == OpeningsOf(f, parsed.blocks, 2)
        subs(t) == [k \in 1..Len(OpeningsOf(f, parsed.blocks, t)) |->
                       SubFace(Face3D(OpeningsOf(f, parsed.blocks, t)[k], <<>>))]
        face  == WithBoundaryCondition(
                     Face(g.type, Face3D(parsed.boundary, <<>>), subs(0), subs(1), <<>>,
                          NoSplit),
                     FaceBoundaryCondition(subs(0) # <<>> \/ subs(1) # <<>>, g.ground))
        new(faces) == [k \in 1..Len(faces) |->
                          WithBoundaryCondition(faces[k], get_bc_from_position(g.ground))]
    IN  IF holes = <<>> THEN <<face>>
        ELSE IF MostlyHoles(HolesArea(parsed.blocks, g), g.area) THEN
            IF Len(holes) = 1 THEN <<[face EXCEPT !.type = "AirBoundary"]>>
            ELSE new([h \in 1..Len(holes) |-> AirBoundaryFace(holes[h], <<>>)])
        ELSE new(PartlyHoles(holes, g))

\* the print() of the Ground to Outdoors change
RoomFacePrints(parsed, g) ==
    IF g.ground /\ \E o \in 1..Len(parsed.blocks) : parsed.blocks[o].type \in {0, 1}
    THEN 1 ELSE 0

\* the shade branches for one face: [raise, obj]
ShadeFromIes(f, parsed, gem_type, display_name) ==
    LET holes == OpeningsOf(f, parsed.blocks, 2)
    IN  update_name(
            CASE gem_type = "TranslucentShade" ->
                   create_shade(parsed.boundary, <<>>, FALSE,
                                [__gem_type__ |-> "translucent_shade"])
              [] gem_type = "Topography" ->
                   create_shade(parsed.boundary, holes, TRUE, [__gem_type__ |-> "topography"])
              [] OTHER ->
                   create_shade(parsed.boundary, holes, gem_type = "ContextBuilding", <<>>),
            display_name, "None", FALSE)

----------------------------------------------------------------------------
(* honeybee_ies/reader.py: _parse_gem_segment and model_from_gem.  A parse  *)
(* result is [err, message, kind, room, shades, mesh, prints, made, calls]: *)
(* made counts the Aperture and Door objects constructed and the holes      *)
(* kept, calls the times _parse_gem_segment was entered.                   *)

NoMade == [apertures |-> 0, doors |-> 0, holes |-> 0]

ParseError(err, message) ==
    [err |-> err, message |-> message, kind |-> "none", room |-> <<>>, shades |-> <<>>,
     mesh |-> <<>>, prints |-> 0, made |-> NoMade, calls |-> 1]

\* the openings the face loop turned into objects, by type
MadeOf(faces) ==
    LET n(t) == SeqSum([f \in 1..Len(faces) |-> Len(BlockIndexes(faces[f].blocks, t))])
    IN  [apertures |-> n(0), doors |-> n(1), holes |-> n(2)]

\* the end of _parse_gem_segment for a room: Room(identifier, faces), its name,
\* and exclude_floor_area for an UnconditionedSpace
RoomFromFaces(gem_type, display_name, parsed, named, prints) ==
    IF named.raise THEN ParseError("AssertionError", <<>>)
    ELSE [err |-> "", message |-> <<>>, kind |-> "Room",
          room |-> [named.obj EXCEPT !.exclude_floor_area = gem_type = "UnconditionedSpace"],
          shades |-> <<>>, mesh |-> <<>>, prints |-> prints, made |-> MadeOf(parsed),
          calls |-> 1]

\* the end of _parse_gem_segment for shades: the list of faces
ShadesFromFaces(parsed, made) ==
    IF \E f \in 1..Len(made) : made[f].raise THEN ParseError("AssertionError", <<>>)
    ELSE [err |-> "", message |-> <<>>, kind |-> "Shades", room |-> <<>>,
          shades |-> [f \in 1..Len(made) |-> made[f].obj],
          mesh |-> <<>>, prints |-> 0, made |-> MadeOf(parsed), calls |-> 1]

\* the face loop and what follows it, given what the text of the faces holds
SegmentObjects(gem_type, display_name, r, geo) ==
    IF r.err # "" THEN ParseError(r.err, <<>>)
    ELSE IF gem_type \in {"Space", "UnconditionedSpace"} THEN
        RoomFromFaces(gem_type, display_name, r.faces,
            update_name(
                Room(<<"auto">>, <<"auto">>, FALSE,
                     Flatten([f \in 1..Len(r.faces) |->
                                 RoomFacesFromIes(f, r.faces[f], GeoAt(geo, f))]),
                     <<>>),
                display_name, "None", TRUE),
            SeqSum([f \in 1..Len(r.faces) |-> RoomFacePrints(r.faces[f], GeoAt(geo, f))]))
    ELSE ShadesFromFaces(r.faces,
            [f \in 1..Len(r.faces) |-> ShadeFromIes(f, r.faces[f], gem_type, display_name)])

\* the shade-mesh branch: ShadeMesh(identifier, Mesh3D(vertices, faces))
MeshFromIes(display_name, ver_count, scan) ==
    LET named == update_name(
                    [identifier |-> <<"auto">>, display_name |-> <<"auto">>,
                     geometry |-> [kind |-> "ShadeMesh",
                                   vertices |-> [i \in 1..ver_count |-> i],
                                   faces |-> scan.faces],
                     is_detached |-> TRUE, user_data |-> <<>>],
                    display_name, "None", FALSE)
    IN  IF named.raise THEN ParseError("AssertionError", <<>>)
        ELSE [err |-> "", message |-> <<>>, kind |-> "ShadeMesh", room |-> <<>>,
              shades |-> <<>>, mesh |-> named.obj, prints |-> 0, made |-> NoMade,
              calls |-> 1]

\* 'return _parse_gem_segment(segment, True)' reached in the shade-mesh loop:
\* the parse goes on in a second call
ParseAgain == [ParseError("", <<>>) EXCEPT !.kind = "again"]

\* 'everything else': the count line, the vertex lines, then a mesh or faces
GenericFromIes(gem_type, content, geo, ignore_shade_mesh) ==
    IF Len(content) < 2 THEN ParseError("StopIteration", <<>>)
    ELSE IF Len(Tokens(content[2])) # 2 THEN ParseError("ValueError", <<>>)
    ELSE
      LET ver_count  == IntOf(Tokens(content[2])[1])
          face_count == IntOf(Tokens(content[2])[2])
      IN  IF ver_count < 0 \/ face_count < 0 THEN ParseError("ValueError", <<>>)
          ELSE IF 2 + ver_count > Len(content) THEN ParseError("StopIteration", <<>>)
          ELSE IF \E i \in 1..ver_count : ~IsCoordLine(content[2 + i])
              THEN ParseError("ValueError", <<>>)
          ELSE IF ~ignore_shade_mesh /\ gem_type = "ContextBuilding" /\ face_count > 1
              THEN IF MeshScan(content, 3 + ver_count, face_count, ver_count).kind = "mesh"
                   THEN MeshFromIes(content[1], ver_count,
                                    MeshScan(content, 3 + ver_count, face_count, ver_count))
                   ELSE IF MeshScan(content, 3 + ver_count, face_count, ver_count).kind
                              = "faces"
                   THEN ParseAgain
                   ELSE ParseError("ValueError", <<>>)
          ELSE SegmentObjects(gem_type, content[1],
                              ReadFaces(content, 3 + ver_count, face_count, ver_count), geo)

\* the PV branch: _create_pv on the parameter line
PVFromIes(content) ==
    LET named == update_name(create_shade(<<1, 2, 3, 4>>, <<>>, TRUE, [__gem_type__ |-> "pv"]),
                             content[1], "None", FALSE)
    IN  IF Len(content) < 2 THEN ParseError("StopIteration", <<>>)
        ELSE IF content[2] # <<"pv_info">> THEN ParseError("AssertionError", <<>>)
        ELSE IF named.raise THEN ParseError("AssertionError", <<>>)
        ELSE [err |-> "", message |-> <<>>, kind |-> "Shades", room |-> <<>>,
              shades |-> <<named.obj>>, mesh |-> <<>>, prints |-> 0, made |-> NoMade,
              calls |-> 1]

\* the Tree branch: the '2D Tree N' line, then _create_tree on the parameter
\* line: two crossing faces, the first with the import marker
TreeFromIes(content) ==
    LET tree_type == IntOf(content[2][Len(content[2])])
        tree(k, user_data) ==
            update_name(create_shade(<<1, 2, 3, 4>>, <<>>, TRUE, user_data),
                        content[1], k, FALSE)
        tree_0 == tree("0", [__gem_type__ |-> "tree", __gem_tree_type__ |-> tree_type,
                             __ies_import__ |-> TRUE])
        tree_1 == tree("1", [__gem_type__ |-> "tree", __gem_tree_type__ |-> tree_type])
    IN  IF Len(content) < 3 THEN ParseError("StopIteration", <<>>)
        ELSE IF Len(content[2]) < 3 \/ SubSeq(content[2], 1, 3) # <<"2D", SP, "Tree">>
            THEN ParseError("AssertionError", <<>>)
        ELSE IF tree_type < 0 THEN ParseError("ValueError", <<>>)
        ELSE IF content[3] # <<"tree_info">> THEN ParseError("AssertionError", <<>>)
        ELSE IF tree_0.raise \/ tree_1.raise THEN ParseError("AssertionError", <<>>)
        ELSE [err |-> "", message |-> <<>>, kind |-> "Shades", room |-> <<>>,
              shades |-> <<tree_0.obj, tree_1.obj>>, mesh |-> <<>>, prints |-> 0,
              made |-> NoMade, calls |-> 1]

\* _parse_gem_segment from the display name on
SegmentBody(gem_type, content, geo, ignore_shade_mesh) ==
    IF content = <<>> THEN ParseError("StopIteration", <<>>)
    ELSE IF clean_string(content[1]).raise THEN ParseError("AssertionError", <<>>)
    ELSE IF gem_type = "PV" THEN PVFromIes(content)
    ELSE IF gem_type = "Tree" THEN TreeFromIes(content)
    ELSE GenericFromIes(gem_type, content, geo, ignore_shade_mesh)

\* _parse_gem_segment once info and segments are unpacked
SegmentParts(parts, keyword_, geo, ignore_shade_mesh) ==
    IF Len(parts) # 2 THEN ParseError("ValueError: unpack", <<>>)
    ELSE IF gem_object_type(parts[1], keyword_).raise THEN ParseError("ValueError", <<>>)
    ELSE [SegmentBody(gem_object_type(parts[1], keyword_).member, Content(parts[2]),
                      geo, ignore_shade_mesh)
          EXCEPT !.prints = @ + gem_object_type(parts[1], keyword_).prints]

RECURSIVE parse_gem_segment(_, _, _)
\* what a call returns whose parse came to r: r itself, or what the second
\* call on the same segment returns, after the prints of both
SegmentReturn(r, segment, geo) ==
    IF r.kind = "again"
    THEN [parse_gem_segment(segment, geo, TRUE) EXCEPT !.calls = @ + r.calls,
                                                       !.prints = @ + r.prints]
    ELSE r

\* _parse_gem_segment once the loop over the keywords has chosen one
SegmentWithKeyword(segment, keyword_, geo, ignore_shade_mesh) ==
    SegmentReturn(SegmentParts(SplitOnSeq(segment, <<NL, keyword_, SP>>), keyword_, geo,
                               ignore_shade_mesh),
                  segment, geo)

\* _parse_gem_segment(segment, ignore_shade_mesh)
parse_gem_segment(segment, geo, ignore_shade_mesh) ==
    IF SegmentKeyword(segment) = "None"
        THEN ParseError("ValueError: unsupported type", segment)
    ELSE SegmentWithKeyword(segment, SegmentKeyword(segment), geo, ignore_shade_mesh)

\* the loop over parsed_objects and the Model: [err, message, model, prints]
ModelFromParsed(parsed) ==
    LET failed == {k \in 1..Len(parsed) : parsed[k].err # ""}
        first  == CHOOSE k \in failed : \A j \in failed : k <= j
        of(kind) == SelectSeq(parsed, LAMBDA r : r.kind = kind)
    IN  IF failed # {}
            THEN [err |-> parsed[first].err, message |-> parsed[first].message,
                  model |-> <<>>, prints |-> 0]
        ELSE [err |-> "", message |-> <<>>,
              model |-> Model("Meters",
                              [k \in 1..Len(of("Room")) |-> of("Room")[k].room],
                              Flatten([k \in 1..Len(of("Shades")) |-> of("Shades")[k].shades]),
                              [k \in 1..Len(of("ShadeMesh")) |-> of("ShadeMesh")[k].mesh]),
              prints |-> SeqSum([k \in 1..Len(parsed) |-> parsed[k].prints])]

\* gem_str.split('\nLAYER')[1:] and _parse_gem_segment on every segment; geos[k]
\* is what the coordinates of segment k stand for
ParsedSegments(segments, geos) ==
    [k \in 1..Len(segments) |->
        parse_gem_segment(segments[k], IF k \in DOMAIN geos THEN geos[k] ELSE <<>>, FALSE)]

\* model_from_gem(gem_str)
model_from_gem(gem_str, geos) ==
    ModelFromParsed(ParsedSegments(Tail(SplitOnSeq(gem_str, <<NL, "LAYER">>)), geos))

----------------------------------------------------------------------------
(* _parse_gem_segment called on a segment, and the parsed objects written   *)
(* again                                                                   *)

\* one opening block as the format has it: '{count} {type}' and count lines
BlockText(block) ==
    <<Num(block.count), SP, Num(block.type)>> \o
    Flatten([j \in 1..block.count |-> <<NL, "xy">>])

\* the face records of a segment whose face f has faces[f].n vertices of its
\* own and the opening blocks faces[f].blocks
FacesText(faces) ==
    Join(<<NL>>,
         [f \in 1..Len(faces) |->
             FaceStr([j \in 1..faces[f].n |->
                         Num(SeqSum([e \in 1..(f - 1) |-> faces[e].n]) + j)])
             \o <<Num(Len(faces[f].blocks))>>
             \o Flatten([o \in 1..Len(faces[f].blocks) |->
                            <<NL>> \o BlockText(faces[f].blocks[o])])])

\* the record of a member in GEM format, with another keyword on its name line
\* when keyword_ is not the member's
RecordText(member, keyword_, name, identifier, faces) ==
    LET vc  == SeqSum([f \in 1..Len(faces) |-> faces[f].n])
        rec == CASE member = "PV" -> to_gem(member, name, identifier, <<"pv_info">>, <<>>, 0, 0)
                 [] member = "Tree" ->
                      to_gem(member, name, identifier,
                             <<"2D", SP, "Tree", SP, Num(2), NL, "tree_info">>, <<>>, 0, 0)
                 [] OTHER ->
                      \* a translucent shade as any other record, its openings
                      \* those of faces
                      GemText(IF member = "TranslucentShade" THEN "Shade" ELSE member,
                              GemHeader(member, name, identifier),
                              vertices_to_ies([i \in 1..vc |-> i]), FacesText(faces),
                              vc, Len(faces))
    IN  [i \in 1..Len(rec) |->
            IF i > 1 /\ i < Len(rec) /\ rec[i] = keyword(member)
               /\ rec[i - 1] = NL /\ rec[i + 1] = SP
            THEN keyword_ ELSE rec[i]]

\* what the coordinates of a face with the given blocks stand for: every
\* opening has the given area, and the holes lie inside the one base face
GeoInside(face, ground, area) ==
    [type |-> "Wall", ground |-> ground, area |-> 100,
     areas |-> [o \in 1..Len(face.blocks) |-> area],
     pieces |-> <<[boundary |-> [j \in 1..face.n |-> j],
                   holes |-> [k \in 1..Len(BlockIndexes(face.blocks, 2)) |-> k]]>>,
     split |-> NoSplit]

\* an input of the reader: the segment as split('\nLAYER') leaves it (the record
\* without its first word), what its coordinates stand for, and what it was
\* made from
ReadInput(member, keyword_, name, identifier, faces, geo) ==
    [segment |-> Tail(RecordText(member, keyword_, name, identifier, faces)),
     geo |-> geo, member |-> member, keyword |-> keyword_, name |-> name,
     identifier |-> identifier, faces |-> faces]

\* bounds of the segments
MaxBlocks     == 2
MaxReadFaces  == 2

\* display names on a name line: plain, ending in a bracketed tag of its own,
\* with a run of two spaces, and with the letters of a keyword in it
ReadNames ==
    { <<"R", "m">>,
      <<"R", "m", SP, "[", "1", "]">>,
      <<"R", SP, SP, "m">>,
      <<"t", "I", "E", "S">>,
      <<"P", "L", "A", "N">> }

ReadIds == { <<>>, <<"R", "M", "0", "1">> }

PlainFace == [n |-> 4, blocks |-> <<>>]

\* segments of every kind under every name, with the member's keyword and with
\* a keyword that is none of the three
NamedInputs ==
    { ReadInput(m, k, name, id, [f \in 1..n |-> PlainFace],
                [f \in 1..n |-> GeoInside(PlainFace, FALSE, 10)]) :
        m \in {"Space", "Shade", "ContextBuilding", "TranslucentShade", "Tree", "PV"},
        k \in {"IES", "LAN", "PVP", "XYZ"}, name \in ReadNames, id \in ReadIds,
        n \in 1..MaxReadFaces }

\* opening blocks of the types 0 to 3
BlockLists == SeqsOf({[count |-> 3, type |-> t] : t \in 0..3}, 0, MaxBlocks)

\* segments of every kind that is read face by face, with openings
OpeningInputs ==
    { ReadInput(m, keyword(m), <<"R", "m">>, <<"R", "M", "0", "1">>,
                <<[n |-> 4, blocks |-> blocks]>> \o [f \in 1..extra |-> PlainFace],
                <<GeoInside([n |-> 4, blocks |-> blocks], ground, 10)>>
                \o [f \in 1..extra |-> GeoInside(PlainFace, FALSE, 10)]) :
        m \in GEM_TYPES \ {"PV", "Tree"}, blocks \in BlockLists,
        ground \in BOOLEAN, extra \in 0..(MaxReadFaces - 1) }

\* areas of a hole in a face of area 100
HoleAreas == {1, 49, 50, 97, 98, 100}

\* what coplanar_difference can return for a face with the given holes: one
\* face that has all of them inside; one face and the holes on its edge; two
\* faces, the first with the first hole inside
PiecesOf(n, holes) ==
    { <<[boundary |-> [j \in 1..n |-> j], holes |-> [k \in 1..holes |-> k]]>>,
      <<[boundary |-> [j \in 1..(n + 2) |-> j], holes |-> <<>>]>>,
      <<[boundary |-> [j \in 1..n |-> j], holes |-> <<1>>],
        [boundary |-> <<1, 2, 3>>, holes |-> <<>>]>> }

\* room segments of one face with one or two holes of every area
AreaInputs ==
    { ReadInput(m, "IES", <<"R", "m">>, <<"R", "M", "0", "1">>,
                <<[n |-> 4, blocks |-> [o \in 1..Len(areas) |-> [count |-> 3, type |-> 2]]]>>,
                <<[type |-> t, ground |-> FALSE, area |-> 100, areas |-> areas,
                   pieces |-> pieces, split |-> NoSplit]>>) :
        m \in {"Space", "UnconditionedSpace"}, t \in {"Wall"},
        areas \in SeqsOf(HoleAreas, 1, MaxBlocks),
        pieces \in PiecesOf(4, 1) \cup PiecesOf(4, 2) }

\* the line under the name line of a tree segment: '2D Tree N', and lines that
\* name another kind of tree or no number
TreeLines ==
    { <<"2D", SP, "Tree", SP, Num(1)>>,
      <<"2D", SP, "Tree", SP, Num(2)>>,
      <<"2D", SP, "Tree", SP, Num(12)>>,
      <<"3D", SP, "Tree", SP, Num(2)>>,
      <<"Tree", SP, Num(2)>>,
      <<"2D", SP, "Tree">> }

\* tree segments under every name, with every line under the name line
TreeInputs ==
    { [segment |-> Tail(to_gem("Tree", name, id, line \o <<NL, "tree_info">>, <<>>, 0, 0)),
       geo |-> <<>>, member |-> "Tree", keyword |-> "LAN", name |-> name,
       identifier |-> id, faces |-> <<>>] :
        name \in ReadNames, id \in ReadIds, line \in TreeLines }

\* bound of the context-building segments
MaxContextFaces == 3

\* face records of 3, 4 and 5 vertices without openings, and of 4 vertices with
\* a hole and with a block of an unsupported type
ContextFaces ==
    { [n |-> n, blocks |-> <<>>] : n \in 3..5 } \cup
    { [n |-> 4, blocks |-> <<[count |-> 3, type |-> t]>>] : t \in {2, 3} }

\* context-building segments of several faces
ContextInputs ==
    { ReadInput("ContextBuilding", "IES", <<"R", "m">>, <<"R", "M", "0", "1">>, faces,
                [f \in 1..Len(faces) |-> GeoInside(faces[f], FALSE, 10)]) :
        faces \in SeqsOf(ContextFaces, 2, MaxContextFaces) }

InitRead ==
    /\ call = NoCall
    /\ \E input \in NamedInputs \cup OpeningInputs \cup AreaInputs \cup TreeInputs
                     \cup ContextInputs :
          heap = <<input>>
    /\ ret = NoRet
    /\ printed = 0
    /\ files = <<>>

\* how a call of _parse_gem_segment ends: the exception, or the objects
ParseRet(r) ==
    IF r.err # ""
    THEN [kind |-> "raise", error |-> r.err, message |-> r.message, calls |-> r.calls]
    ELSE [kind |-> "return", calls |-> r.calls,
          value |-> [kind |-> r.kind, room |-> r.room, shades |-> r.shades,
                     mesh |-> r.mesh, made |-> r.made]]

\* _parse_gem_segment(segment)
ParseSegmentCall ==
    /\ call.fn = "none"
    /\ call' = [fn |-> "_parse_gem_segment", input |-> 1]
    /\ \E r \in {parse_gem_segment(heap[1].segment, heap[1].geo, FALSE)} :
          /\ ret' = ParseRet(r)
          /\ printed' = printed + r.prints
    /\ UNCHANGED <<heap, files>>

\* the parsed objects through the writer: room_to_ies, shades_to_ies or
\* shade_meshes_to_ies
WriteParsedCall ==
    /\ call.fn = "_parse_gem_segment"
    /\ ret.kind = "return"
    /\ \E th \in Thicknesses :
          \E r \in {CASE ret.value.kind = "Room" -> room_to_ies(ret.value.room, th)
                      [] ret.value.kind = "Shades" -> shades_to_ies(ret.value.shades, th)
                      [] OTHER -> shade_meshes_to_ies(<<ret.value.mesh>>)} :
              /\ call' = [fn |-> "write", input |-> 1, parsed |-> ret.value,
                          thickness |-> th]
              /\ ret' = IF r.raise THEN [kind |-> "raise", error |-> "write", message |-> <<>>]
                        ELSE [kind |-> "return", value |-> r.text]
              /\ printed' = printed + r.prints
    /\ UNCHANGED <<heap, files>>

NextRead == ParseSegmentCall \/ WriteParsedCall

SpecRead == InitRead /\ [][NextRead]_vars

----------------------------------------------------------------------------
(* Claims on SpecRead                                                      *)

\* the objects a parse returned
EntitiesOf(parsed) ==
    CASE parsed.kind = "Room" -> <<parsed.room>>
      [] parsed.kind = "Shades" -> parsed.shades
      [] OTHER -> <<parsed.mesh>>

\* the segment is one with a plain body under the keyword of its type
PlainInput(input) ==
    /\ input.keyword = keyword(input.member)
    /\ \A f \in 1..Len(input.faces) : input.faces[f].blocks = <<>>

\* the name line 'N [I]' of a record, after its keyword
TaggedNameLine(input) ==
    <<input.keyword, SP>> \o input.name \o <<SP, "[">> \o input.identifier \o <<"]">>

\* C12: a segment whose name line is 'N [I]' is read into entities with
\* identifier I and display name N, and writing such an entity (a room, or a
\* single-face shade with thickness 0) gives the name line 'N [I]' again.
C12_NameLineRoundTrip ==
    LET input == heap[1]
    IN  (call.fn \in {"_parse_gem_segment", "write"}
         /\ PlainInput(input) /\ input.identifier # <<>>) =>
            /\ call.fn = "_parse_gem_segment" =>
                  /\ ret.kind = "return"
                  /\ \A k \in 1..Len(EntitiesOf(ret.value)) :
                        /\ EntitiesOf(ret.value)[k].identifier = input.identifier
                        /\ EntitiesOf(ret.value)[k].display_name = input.name
            /\ (/\ call.fn = "write"
                /\ \/ call.parsed.kind = "Room"
                   \/ call.parsed.kind = "Shades" /\ Len(call.parsed.shades) = 1
                      /\ call.thickness = 0) =>
                  /\ ret.kind = "return"
                  /\ Lines(ret.value)[HeaderLines] = TaggedNameLine(input)

\* the first word of the name line of a segment
NameKeyword(segment) ==
    LET lines == Lines(segment)
    IN  IF Len(lines) < HeaderLines \/ Len(lines[HeaderLines]) < 2 THEN "None"
        ELSE IF lines[HeaderLines][2] # SP THEN "None"
        ELSE lines[HeaderLines][1]

\* C16: a segment is parsed with keyword K (IES, LAN or PVP) exactly when its
\* name line begins with 'K ', whatever else the segment contains; a segment
\* whose name line begins with none of the three aborts with the
\* unsupported-type error, whose message is the segment.
C16_KeywordByNameLine ==
    call.fn = "_parse_gem_segment" =>
        LET segment == heap[1].segment
            K       == NameKeyword(segment)
        IN  IF K \in {"IES", "LAN", "PVP"}
            THEN ret = ParseRet(SegmentWithKeyword(segment, K, heap[1].geo, FALSE))
            ELSE /\ ret.kind = "raise"
                 /\ ret.error = "ValueError: unsupported type"
                 /\ ret.message = segment

\* how many opening blocks of type t the face records of an input hold
BlocksOfType(faces, t) ==
    SeqSum([f \in 1..Len(faces) |->
               Cardinality({o \in 1..Len(faces[f].blocks) : faces[f].blocks[o].type = t})])

\* the segment is read face by face: it is no PV, no tree and no shade mesh
PerFaceInput(input) ==
    /\ input.keyword = keyword(input.member)
    /\ input.member \notin {"PV", "Tree"}
    /\ input.member = "ContextBuilding" /\ Len(input.faces) > 1 =>
          \E f \in 1..Len(input.faces) : input.faces[f].blocks # <<>>

\* C17: in the per-face path a block of type 0 becomes an aperture, of type 1
\* a door and of type 2 a hole, and a block of any other type aborts the
\* parse, whatever the object type of the segment.
C17_OpeningTypes ==
    (call.fn = "_parse_gem_segment" /\ PerFaceInput(heap[1])) =>
        LET faces == heap[1].faces
            other == \E f \in 1..Len(faces) : \E o \in 1..Len(faces[f].blocks) :
                        faces[f].blocks[o].type \notin {0, 1, 2}
        IN  /\ other => ret.kind = "raise" /\ ret.error = "Unsupported opening type"
            /\ ret.kind = "raise" /\ ret.error = "Unsupported opening type" => other
            /\ ret.kind = "return" =>
                  /\ ret.value.made = [apertures |-> BlocksOfType(faces, 0),
                                       doors |-> BlocksOfType(faces, 1),
                                       holes |-> BlocksOfType(faces, 2)]
                  /\ (ret.value.kind = "Room" /\ BlocksOfType(faces, 2) = 0) =>
                        /\ Len(ret.value.room.faces) = Len(faces)
                        /\ \A f \in 1..Len(faces) :
                              /\ Len(ret.value.room.faces[f].apertures)
                                    = BlocksOfType(<<faces[f]>>, 0)
                              /\ Len(ret.value.room.faces[f].doors)
                                    = BlocksOfType(<<faces[f]>>, 1)
                  /\ (ret.value.kind = "Shades" /\ heap[1].member # "TranslucentShade") =>
                        /\ Len(ret.value.shades) = Len(faces)
                        /\ \A f \in 1..Len(faces) :
                              Len(ret.value.shades[f].geometry.holes)
                                 = BlocksOfType(<<faces[f]>>, 2)

\* a room segment is read whose first face has an aperture and a door
C17_Witness ==
    /\ call.fn = "_parse_gem_segment"
    /\ ret.kind = "return"
    /\ ret.value.kind = "Room"
    /\ Len(ret.value.room.faces[1].apertures) = 1
    /\ Len(ret.value.room.faces[1].doors) = 1

\* the positions of the hole blocks of a face record of an input
HoleBlocks(face) == {o \in 1..Len(face.blocks) : face.blocks[o].type = 2}

\* the total area of the holes of the first face record, from its coordinates
InputHolesArea(input) ==
    SeqSum([o \in 1..Len(input.faces[1].blocks) |->
               IF o \in HoleBlocks(input.faces[1]) THEN input.geo[1].areas[o] ELSE 0])

\* the air-boundary faces of a room, by position
AirBoundaryFaces(room) ==
    {k \in 1..Len(room.faces) : room.faces[k].type = "AirBoundary"}

\* a room segment of one face record with holes has been read
OneHoledFaceRead ==
    /\ call.fn = "_parse_gem_segment"
    /\ ret.kind = "return"
    /\ ret.value.kind = "Room"
    /\ Len(heap[1].faces) = 1
    /\ HoleBlocks(heap[1].faces[1]) # {}

\* C18: for a room face with holes of total area H and a boundary of area B:
\* with H >= 0.98 B and one hole the reader emits one face, an air boundary,
\* and no base face; with H >= 0.98 B and several holes one air boundary per
\* hole and not the parent; with H < 0.98 B at least one base face and the
\* hole faces.
C18_HoleThreshold ==
    OneHoledFaceRead =>
        LET input == heap[1]
            H     == InputHolesArea(input)
            B     == input.geo[1].area
            holes == Cardinality(HoleBlocks(input.faces[1]))
            room  == ret.value.room
            parent == [j \in 1..input.faces[1].n |-> j]
        IN  IF 100 * H >= 98 * B
            THEN IF holes = 1
                 THEN /\ Len(room.faces) = 1
                      /\ AirBoundaryFaces(room) = {1}
                 ELSE /\ Len(room.faces) = holes
                      /\ AirBoundaryFaces(room) = 1..holes
                      /\ \A k \in 1..holes : room.faces[k].geometry.boundary # parent
            ELSE /\ \E k \in 1..Len(room.faces) : room.faces[k].type # "AirBoundary"
                 /\ Cardinality(AirBoundaryFaces(room)) = holes

\* a face of area 100 with one hole of area 98 is read as one air boundary
C18_Witness ==
    /\ OneHoledFaceRead
    /\ heap[1].geo[1].area = 100
    /\ heap[1].geo[1].areas = <<98>>
    /\ Len(ret.value.room.faces) = 1
    /\ ret.value.room.faces[1].type = "AirBoundary"

----------------------------------------------------------------------------
(* shade_meshes_to_ies called on a list of shade meshes                    *)

MaxMeshList == 2

\* shade meshes of two triangles or one quad, under a plain name, a name with
\* a line break and a name with a run of spaces
MeshTemplates ==
    { [ShadeMeshTemplate EXCEPT !.display_name = name, !.is_detached = detached,
                                !.geometry.faces = faces] :
        name \in { <<"M", "s", "h">>, <<"M", NL, "s", "h">>, <<"M", SP, SP, "s", "h">> },
        detached \in BOOLEAN,
        faces \in { << <<0, 1, 2>>, <<0, 2, 3>> >>, << <<0, 1, 2, 3>> >> } }

InitMeshes ==
    /\ call = NoCall
    /\ \E meshes \in SeqsOf(MeshTemplates, 0, MaxMeshList) :
          heap = <<WithIds(meshes, "mesh")>>
    /\ ret = NoRet
    /\ printed = 0
    /\ files = <<>>

\* shade_meshes_to_ies(shades)
ShadeMeshesToIesCall ==
    /\ call.fn = "none"
    /\ \E r \in {shade_meshes_to_ies(heap[1])} :
          /\ call' = [fn |-> "shade_meshes_to_ies", shades |-> 1]
          /\ ret' = IF r.raise THEN [kind |-> "raise"]
                    ELSE [kind |-> "return", value |-> r.text]
          /\ printed' = printed + r.prints
    /\ UNCHANGED <<heap, files>>

NextMeshes == ShadeMeshesToIesCall

SpecMeshes == InitMeshes /\ [][NextMeshes]_vars

\* the lines that follow the 12 header lines of each record of a text
NameLinesIn(lines) ==
    LET starts == SelectSeq([i \in 1..Len(lines) |-> i], LAMBDA i : lines[i] = <<"LAYER">>)
    IN  [k \in 1..Len(starts) |->
            IF starts[k] + HeaderLines - 1 <= Len(lines)
            THEN lines[starts[k] + HeaderLines - 1] ELSE <<>>]

\* the number of lines a mesh record has when its name is on one line
MeshRecordLines(mesh) ==
    HeaderLines + 1 + Len(mesh.geometry.vertices) + 2 * Len(mesh.geometry.faces)

\* C15: every record the writer emits has its display name on exactly one
\* line: line breaks and runs of whitespace in the name are written as a
\* single space, followed by ' [identifier]'.  Here for shade meshes.
C15_NameOnOneLine ==
    (call.fn = "shade_meshes_to_ies" /\ ret.kind = "return") =>
        LET meshes == heap[1]
            lines  == Lines(ret.value)
            names  == NameLinesIn(lines)
        IN  /\ Len(names) = Len(meshes)
            /\ \A k \in 1..Len(meshes) :
                  names[k] = <<"IES", SP>> \o CollapseName(meshes[k].display_name)
                             \o <<SP, "[">> \o meshes[k].identifier \o <<"]">>
            /\ meshes # <<>> =>
                  Len(lines) = SeqSum([k \in 1..Len(meshes) |-> MeshRecordLines(meshes[k])])

----------------------------------------------------------------------------
(* model_to_ies called where files may exist already                       *)

MaxIesRooms == 2

\* the rooms of a model, and two with a holed floor that is split: into
\* fragments of known vertices, and into fragments with a vertex (99) that is
\* not among the vertices of the room
IesRooms ==
    ModelRooms \cup
    { Room(<<>>, <<"F", "l", "r">>, FALSE,
           <<Face("Floor", Face3D(<<1, 2, 3, 4>>, << <<41, 42, 43, 44>> >>), <<>>, <<>>, <<>>,
                  [kind |-> "fragments",
                   fragments |-> <<Face3D(<<1, 2, 3, 42, 41>>, <<>>),
                                   Face3D(<<1, 41, 44, last, 42, 3, 4>>, <<>>)>>])>>,
           <<>>) : last \in {43, 99} }

\* the folder is empty, or holds both files from an earlier export
FilesBefore ==
    { <<>>,
      DictSet(DictSet(<<>>, out_file, <<"COM", NL>>), mapper_out_file,
              DictSet(<<>>, <<"room", "-", "1">>, <<"R", "M">> \o Fmt06d(0))) }

InitIes ==
    /\ call = NoCall
    /\ \E rooms \in SeqsOf(IesRooms, 0, MaxIesRooms),
          shades \in SeqsOf({CHOOSE shade \in ModelShades : shade.user_data = <<>>}, 0, 1) :
          heap = <<Model("Meters", WithIds(rooms, "room"), WithIds(shades, "shade"), <<>>)>>
    /\ ret = NoRet
    /\ printed = 0
    /\ files \in FilesBefore

NextIes == ModelToIesCall

SpecIes == InitIes /\ [][NextIes]_vars

\* C19: a write fully succeeds or fully fails: when model_to_ies raises (a room
\* name with fewer than 2 usable characters, a fragment vertex that is not
\* found), nothing has been written: the GEM file and the id-mapper file are
\* neither created nor changed.  When it returns, the GEM file is there.
C19_WriteAllOrNothing ==
    [][ /\ (call'.fn = "model_to_ies" /\ ret'.kind = "raise") => files' = files
        /\ (call'.fn = "model_to_ies" /\ ret'.kind = "return") => out_file \in DOMAIN files'
      ]_vars

\* model_to_ies has raised for a fragment vertex that is not found, in a folder
\* that holds files already
C19_Witness ==
    /\ call.fn = "model_to_ies"
    /\ ret.kind = "raise"
    /\ \E i \in 1..Len(call.before.rooms) : FatalSplit(call.before.rooms[i])
    /\ \A i \in 1..Len(call.before.rooms) :
          call.before.rooms[i].display_name # <<"a", SP, "r">>
    /\ files # <<>>

----------------------------------------------------------------------------
(* model_to_gem, model_from_gem on the text, and model_to_gem again        *)

MaxTripFaces == 2

\* room faces: a wall, a wall with an aperture and a door, a floor, an air
\* boundary, an air boundary with a hole in it, a wall with a hole in it, and
\* an air boundary that carries the import marker
TripFaces ==
    { Face("Wall", Face3D(<<1, 2, 6, 5>>, <<>>), <<>>, <<>>, <<>>, NoSplit),
      Face("Wall", Face3D(<<2, 3, 7, 6>>, <<>>),
           <<SubFace(Face3D(<<21, 22, 23, 24>>, <<>>))>>,
           <<SubFace(Face3D(<<28, 29, 30, 31>>, <<>>))>>, <<>>, NoSplit),
      Face("Floor", Face3D(<<1, 2, 3, 4>>, <<>>), <<>>, <<>>, <<>>, NoSplit),
      Face("AirBoundary", Face3D(<<3, 4, 8, 7>>, <<>>), <<>>, <<>>, <<>>, NoSplit),
      Face("AirBoundary", Face3D(<<5, 6, 7, 8>>, << <<41, 42, 43>> >>),
           <<>>, <<>>, <<>>, NoSplit),
      Face("Wall", Face3D(<<4, 1, 5, 8>>, << <<45, 46, 47>> >>), <<>>, <<>>, <<>>, NoSplit),
      Face("AirBoundary", Face3D(<<45, 46, 47>>, <<>>), <<>>, <<>>,
           [__ies_import__ |-> TRUE], NoSplit) }

\* rooms: every list of faces that starts with a face that is written, under a
\* plain name; one wall under a name that ends in a bracketed tag, and under a
\* name that leaves one character to _gen_ve_id
TripRooms ==
    { Room(<<>>, <<"R", "o", "o", "m">>, FALSE, faces, <<>>) :
        faces \in {fs \in SeqsOf(TripFaces, 1, MaxTripFaces) : ~IsImportAirBoundary(fs[1])} }
    \cup
    { Room(<<>>, name, FALSE,
           <<Face("Wall", Face3D(<<1, 2, 6, 5>>, <<>>), <<>>, <<>>, <<>>, NoSplit)>>, <<>>) :
        name \in { <<"R", "m", SP, "[", "1", "]">>, <<"a", SP, "r">> } }

\* a second room of a model
SecondRooms ==
    { Room(<<>>, <<"H", "a", "l", "l">>, TRUE, <<face>>, <<>>) :
        face \in {f \in TripFaces : /\ f.type \in {"Floor", "AirBoundary"}
                                    /\ f.geometry.holes = <<>>
                                    /\ f.user_data = <<>>} }

\* what the coordinates of the written record of a face stand for.  The one
\* hole of an air boundary is its own vertex loop: it has the area of the face,
\* which is the area of the boundary (100) less that of the holes of the face,
\* which are 1 together when small and 20 otherwise; what is left of the
\* boundary then is the holes of the face.  Every other hole lies inside its
\* face
WrittenFaceGeo(face, big) ==
    LET g      == face.geometry
        blocks == IF face.type = "AirBoundary" THEN 1
                  ELSE Len(g.holes) + Len(face.apertures) + Len(face.doors)
    IN  [type |-> IF face.type = "AirBoundary" THEN "Wall" ELSE face.type,
         ground |-> FALSE, area |-> 100,
         areas |-> [o \in 1..blocks |->
                       IF face.type # "AirBoundary" THEN 10
                       ELSE IF g.holes = <<>> THEN 100
                       ELSE IF big THEN 80 ELSE 99],
         pieces |-> IF face.type = "AirBoundary"
                    THEN [h \in 1..Len(g.holes) |-> [boundary |-> g.holes[h], holes |-> <<>>]]
                    ELSE <<[boundary |-> g.boundary,
                            holes |-> [k \in 1..Len(g.holes) |-> k]]>>,
         split |-> NoSplit]

\* per room record of the text of a model without shades, per face record
GeosOfModel(model, big) ==
    [r \in 1..Len(model.rooms) |->
        LET written == SelectSeq(model.rooms[r].faces, LAMBDA f : ~IsImportAirBoundary(f))
        IN  [f \in 1..Len(written) |-> WrittenFaceGeo(written[f], big)]]

InitTrip ==
    /\ call = NoCall
    /\ \E room \in TripRooms, more \in SeqsOf(SecondRooms, 0, 1) :
          heap = <<Model("Meters", WithIds(<<room>> \o more, "room"), <<>>, <<>>)>>
    /\ ret = NoRet
    /\ printed = 0
    /\ files = <<>>

\* text = model_to_gem(model)
TripWriteCall ==
    /\ call.fn = "none"
    /\ \E r \in {model_to_gem(heap, 1, 0)} :
          /\ call' = [fn |-> "model_to_gem", model |-> 1, before |-> heap[1]]
          /\ heap' = r.heap
          /\ ret' = IF r.raise THEN [kind |-> "raise"]
                    ELSE [kind |-> "return", value |-> r.text]
          /\ printed' = printed + r.prints
    /\ UNCHANGED files

\* model = model_from_gem(text)
TripReadCall ==
    /\ call.fn = "model_to_gem"
    /\ ret.kind = "return"
    /\ \E big \in BOOLEAN :
          \E r \in {model_from_gem(ret.value, GeosOfModel(call.before, big))} :
              /\ call' = [fn |-> "model_from_gem", text |-> ret.value,
                          written |-> call.before, big |-> big]
              /\ heap' = IF r.err # "" THEN heap ELSE Append(heap, r.model)
              /\ ret' = IF r.err # ""
                        THEN [kind |-> "raise", error |-> r.err, message |-> r.message]
                        ELSE [kind |-> "return", value |-> Len(heap) + 1]
              /\ printed' = printed + r.prints
    /\ UNCHANGED files

\* text = model_to_gem(model) on the model that was read
TripWriteAgainCall ==
    /\ call.fn = "model_from_gem"
    /\ ret.kind = "return"
    /\ \E r \in {model_to_gem(heap, ret.value, 0)} :
          /\ call' = [fn |-> "model_to_gem_again", model |-> ret.value,
                      before |-> heap[ret.value], first |-> call.text,
                      written |-> call.written]
          /\ heap' = r.heap
          /\ ret' = IF r.raise THEN [kind |-> "raise"]
                    ELSE [kind |-> "return", value |-> r.text]
          /\ printed' = printed + r.prints
    /\ UNCHANGED files

NextTrip == TripWriteCall \/ TripReadCall \/ TripWriteAgainCall

SpecRoundTrip == InitTrip /\ [][NextTrip]_vars

\* the model has only hole-free room faces and no shades
HoleFreeModel(model) ==
    /\ model.shades = <<>>
    /\ model.shade_meshes = <<>>
    /\ \A r \in 1..Len(model.rooms) :
          /\ model.rooms[r].shades = <<>>
          /\ \A f \in 1..Len(model.rooms[r].faces) :
                model.rooms[r].faces[f].geometry.holes = <<>>

\* C13: for every model M with only hole-free room faces and no special
\* shades, model_from_gem(model_to_gem(M)) has as many rooms as M, in the same
\* order, and every room has as many faces as the room of M it comes from.
C13_RoundTripCounts ==
    /\ (call.fn = "model_to_gem" /\ HoleFreeModel(call.before)) => ret.kind = "return"
    /\ (call.fn = "model_from_gem" /\ HoleFreeModel(call.written)) =>
          /\ ret.kind = "return"
          /\ LET M    == call.written
                 read == heap[ret.value]
             IN  /\ Len(read.rooms) = Len(M.rooms)
                 /\ \A r \in 1..Len(M.rooms) :
                       /\ read.rooms[r].display_name = CollapseName(M.rooms[r].display_name)
                       /\ Len(read.rooms[r].faces) = Len(M.rooms[r].faces)

\* the room records of a text, in order
RoomRecordsIn(text) ==
    LET lines == Lines(text)
        at    == SelectSeq([i \in 1..Len(lines) |-> i], LAMBDA i : lines[i] = <<"LAYER">>)
    IN  [k \in 1..Len(at) |->
            ParseRecord(SubSeq(lines, at[k],
                               IF k = Len(at) THEN Len(lines) ELSE at[k + 1] - 1))]

\* the face records written for the air boundaries of a room, in order
AirBoundaryRecordsAmong(faces, recs) ==
    LET written == SelectSeq(faces, LAMBDA f : ~MarkedAirBoundary(f))
        at      == SelectSeq([i \in 1..Len(written) |-> i],
                             LAMBDA i : written[i].type = "AirBoundary")
    IN  [k \in 1..Len(at) |-> IF at[k] <= Len(recs) THEN recs[at[k]] ELSE <<>>]

\* C14: an air-boundary room face is not duplicated by round trips: writing a
\* room with k air-boundary faces, reading the text back and writing it again
\* yields a room record with the same face count and the same k air-boundary
\* face records as the first write, with no extra face for the hole that
\* encodes the air boundary.
C14_NoDuplicateAirBoundary ==
    call.fn = "model_to_gem_again" =>
        /\ ret.kind = "return"
        /\ LET first  == RoomRecordsIn(call.first)
               second == RoomRecordsIn(ret.value)
               M      == call.written
               N      == call.before
           IN  /\ Len(second) = Len(first)
               /\ Len(N.rooms) = Len(M.rooms)
               /\ \A r \in 1..Len(first) :
                     /\ second[r].face_count = first[r].face_count
                     /\ Len(second[r].faces) = Len(first[r].faces)
                     /\ AirBoundaryRecordsAmong(N.rooms[r].faces, second[r].faces)
                           = AirBoundaryRecordsAmong(M.rooms[r].faces, first[r].faces)

----------------------------------------------------------------------------
(* Claims on tree segments                                                 *)

\* the line under the name line of a segment
SubHeaderLine(segment) ==
    IF Len(Lines(segment)) > HeaderLines THEN Lines(segment)[HeaderLines + 1] ELSE <<>>

\* tree_type.startswith('2D Tree')
StartsWith2DTree(line) == Len(line) >= 3 /\ SubSeq(line, 1, 3) = <<"2D", SP, "Tree">>

\* the line is '2D Tree N' for a number N
Is2DTreeN(line) ==
    /\ Len(line) = 5
    /\ SubSeq(line, 1, 4) = <<"2D", SP, "Tree", SP>>
    /\ IntOf(line[5]) >= 0

\* _parse_gem_segment was called on a tree segment
TreeSegmentParsed ==
    /\ call.fn = "_parse_gem_segment"
    /\ heap[1].member = "Tree"
    /\ heap[1].keyword = keyword("Tree")

\* C21: a Tree segment whose sub-header line is '2D Tree N' is read into
\* exactly two shades, both tagged gem type 'tree' with tree type N, of which
\* only the first carries the import-only marker; a Tree segment whose
\* sub-header does not start with '2D Tree' aborts the parse.
C21_TreeTwoShades ==
    TreeSegmentParsed =>
        LET line == SubHeaderLine(heap[1].segment)
        IN  /\ Is2DTreeN(line) =>
                  /\ ret.kind = "return"
                  /\ ret.value.kind = "Shades"
                  /\ Len(ret.value.shades) = 2
                  /\ \A k \in 1..Len(ret.value.shades) :
                        /\ DictGet(ret.value.shades[k].user_data, "__gem_type__", "None") = "tree"
                        /\ DictGet(ret.value.shades[k].user_data, "__gem_tree_type__", -1)
                              = IntOf(line[5])
                        /\ DictGet(ret.value.shades[k].user_data, "__ies_import__", FALSE)
                              = (k = 1)
            /\ ~StartsWith2DTree(line) => ret.kind = "raise"

----------------------------------------------------------------------------
(* Claims on the shade-mesh path                                           *)

\* a face record that the shade-mesh loop gives up on
OffendingFace(face) == face.blocks # <<>> \/ face.n > 4

\* _parse_gem_segment was called on a segment under the keyword of its type
OwnKeywordParsed ==
    /\ call.fn = "_parse_gem_segment"
    /\ heap[1].keyword = keyword(heap[1].member)

\* C22: parsing one segment always terminates and enters _parse_gem_segment
\* again at most once: a ContextBuilding segment with more than one face
\* yields a single shade mesh when every face has 0 openings and at most 4
\* vertices; otherwise the mesh path is abandoned, the same segment is parsed
\* exactly once more through the generic path and the result is a list with one
\* shade per face.
C22_ReparseOnce ==
    OwnKeywordParsed =>
        LET faces == heap[1].faces
        IN  IF heap[1].member = "ContextBuilding" /\ Len(faces) > 1
            THEN IF \A f \in 1..Len(faces) : ~OffendingFace(faces[f])
                 THEN /\ ret.kind = "return"
                      /\ ret.value.kind = "ShadeMesh"
                      /\ ret.calls = 1
                 ELSE /\ ret.kind = "return"
                      /\ ret.value.kind = "Shades"
                      /\ Len(ret.value.shades) = Len(faces)
                      /\ ret.calls = 2
            ELSE ret.calls = 1

----------------------------------------------------------------------------
(* Claims on the boundary conditions of the faces read                     *)

\* _parse_gem_segment has returned a room
RoomRead ==
    /\ call.fn = "_parse_gem_segment"
    /\ ret.kind = "return"
    /\ ret.value.kind = "Room"

\* the face hosts an aperture or a door
HostsSubFaces(face) == face.apertures # <<>> \/ face.doors # <<>>

\* C23: in every room the reader returns, no face that hosts at least one
\* aperture or door has the Ground boundary condition: a face that would be
\* Ground and has an aperture or door is set to Outdoors, and faces without
\* apertures and doors keep their boundary condition.
C23_NoGroundSubFaces ==
    RoomRead =>
        LET room  == ret.value.room
            input == heap[1]
        IN  /\ \A k \in 1..Len(room.faces) :
                  HostsSubFaces(room.faces[k]) => room.faces[k].boundary_condition # "Ground"
            /\ BlocksOfType(input.faces, 2) = 0 =>
                  /\ Len(room.faces) = Len(input.faces)
                  /\ \A f \in 1..Len(input.faces) :
                        room.faces[f].boundary_condition =
                            IF HostsSubFaces(room.faces[f]) THEN "Outdoors"
                            ELSE get_bc_from_position(input.geo[f].ground)
            /\ \A k \in 1..Len(room.faces) :
                  (~HostsSubFaces(room.faces[k]) /\ Len(input.faces) = 1) =>
                      room.faces[k].boundary_condition
                          = get_bc_from_position(input.geo[1].ground)

\* a face below the ground with an aperture has been read as an Outdoors face,
\* with the change printed
C23_Witness ==
    /\ RoomRead
    /\ heap[1].geo[1].ground
    /\ ret.value.room.faces[1].apertures # <<>>
    /\ ret.value.room.faces[1].boundary_condition = "Outdoors"
    /\ printed = 1

----------------------------------------------------------------------------
(* Claims on the holes of a face that is partly holes                      *)

\* a room segment of one face record has been read whose holes cover less
\* than 98 percent of the face
PartlyHoledFaceRead ==
    /\ OneHoledFaceRead
    /\ 100 * InputHolesArea(heap[1]) < 98 * heap[1].geo[1].area

\* the holes of the first face record of an input, as vertex lists
InputHoles(input) == OpeningsOf(1, input.faces[1].blocks, 2)

\* the holes that coplanar_difference left in the hole list of a base face
AbsorbedHoles(input) ==
    {h \in 1..Len(InputHoles(input)) :
        \E p \in 1..Len(input.geo[1].pieces) : h \in Range(input.geo[1].pieces[p].holes)}

\* the air-boundary faces of a room over the given vertices, by position
HoleFacesOf(room, points) ==
    {k \in AirBoundaryFaces(room) : room.faces[k].geometry.boundary = points}

----------------------------------------------------------------------------
(* Claims on the identifiers _convert_room_ids assigns                     *)

\* C25: after _convert_room_ids the identifiers of the rooms of the model are
\* pairwise distinct, for every list of rooms for which the function returns,
\* also when some rooms take the "RM" fallback prefix while other rooms have
\* the code RM of their own.
C25_DistinctRoomIds ==
    ConvertReturned =>
        \A i, j \in 1..Len(heap[1].rooms) :
            i # j => heap[1].rooms[i].identifier # heap[1].rooms[j].identifier

----------------------------------------------------------------------------
(* Claims on the counts of a room record                                   *)

\* the lines of the first record of a text: up to the next LAYER line
FirstRecordLines(lines) ==
    LET later == {i \in 2..Len(lines) : lines[i] = <<"LAYER">>}
    IN  IF later = {} THEN lines
        ELSE SubSeq(lines, 1, (CHOOSE i \in later : \A j \in later : i <= j) - 1)

\* where the vertex lines of a record are
VertexLinesOf(rec) == {i \in 1..Len(rec) : rec[i] = <<"xyz">>}

\* the face records of a record, found under its last vertex line
FaceRecordsOf(rec) ==
    ParseFaceRecords(rec, HeaderLines + 2 + Cardinality(VertexLinesOf(rec)))

\* C26: in every room record written by room_to_ies, the face count in the
\* record's 'vertices faces' line equals the number of face records that
\* follow it, and the vertex count equals the number of vertex lines, whatever
\* faces are suppressed, split into fragments or written unsplit after a failed
\* split.
C26_CountsMatchRecords ==
    RoomReturned =>
        LET rec    == FirstRecordLines(Lines(ret.value))
            counts == rec[HeaderLines + 1]
        IN  /\ Len(counts) = 3
            /\ AtomInt(counts[3]) = Len(FaceRecordsOf(rec))
            /\ AtomInt(counts[1]) = Cardinality(VertexLinesOf(rec))
            /\ VertexLinesOf(rec)
                  = (HeaderLines + 2)..(HeaderLines + 1 + Cardinality(VertexLinesOf(rec)))
            /\ \A k \in 1..Len(FaceRecordsOf(rec)) :
                  FaceRecordsOf(rec)[k].nindex = FaceRecordsOf(rec)[k].index

\* a room of a suppressed air boundary and a floor split into two fragments has
\* been written: two faces, two face records, none of them for the air boundary
C26_Witness ==
    /\ RoomReturned
    /\ Len(call.before.faces) = 2
    /\ \E i \in 1..2 : IsImportAirBoundary(call.before.faces[i])
    /\ \E i \in 1..2 : /\ call.before.faces[i].type = "Floor"
                       /\ call.before.faces[i].split.kind = "fragments"
    /\ Len(FaceRecordsOf(FirstRecordLines(Lines(ret.value)))) = 2
    /\ \A k \in 1..2 : FaceRecordsOf(FirstRecordLines(Lines(ret.value)))[k].nindex > 4

----------------------------------------------------------------------------
(* Claims on the apertures and doors of the faces read                     *)

\* the apertures (t = 0) or doors (t = 1) a room holds
SubFacesIn(room, t) ==
    SeqSum([k \in 1..Len(room.faces) |->
               IF t = 0 THEN Len(room.faces[k].apertures) ELSE Len(room.faces[k].doors)])

\* C27: every aperture and every door decoded for a room face is attached to
\* some face of the room the reader returns, also when the same face has
\* holes: the number of apertures and doors in the room equals the number of
\* type-0 and type-1 opening blocks in the segment.
C27_SubFacesKept ==
    RoomRead =>
        /\ SubFacesIn(ret.value.room, 0) = BlocksOfType(heap[1].faces, 0)
        /\ SubFacesIn(ret.value.room, 1) = BlocksOfType(heap[1].faces, 1)

----------------------------------------------------------------------------
(* Claims on the identifiers of the shades read                            *)

\* two objects carry the same identifier; an identifier left as uuid4() made it
\* is shared with no other object
SameIdentifier(a, b) == a.identifier = b.identifier /\ a.identifier # <<"uuid">>

\* C28: the identifiers of the shades the reader returns are pairwise distinct,
\* also for the shades of a multi-face shade or context-building segment whose
\* name line carries a bracketed identifier and for the two shades of a tree
\* segment.
C28_DistinctShadeIds ==
    (call.fn = "_parse_gem_segment" /\ ret.kind = "return" /\ ret.value.kind = "Shades") =>
        \A i, j \in 1..Len(ret.value.shades) :
            i # j => ~SameIdentifier(ret.value.shades[i], ret.value.shades[j])

----------------------------------------------------------------------------
(* model_from_gem on a text of shade segments, and model_to_gem on the     *)
(* model read                                                              *)

MaxSegments == 2

\* shade, PV and tree records: under two names, without a bracketed id and
\* with one of two, the shade records with one face and with two
ShadeSegments ==
    { [record |-> RecordText(m, keyword(m), name, id, [f \in 1..n |-> PlainFace]),
       member |-> m, name |-> name, identifier |-> id] :
        m \in {"Shade", "PV", "Tree"},
        name \in { <<"R", "m">>, <<"S", "h">> },
        id \in { <<>>, <<"R", "M", "0", "1">>, <<"R", "M", "0", "2">> },
        n \in 1..MaxReadFaces }

\* a GEM text: the first line of the file, then the records
GemTextOf(segments) ==
    Join(<<NL>>, << <<"COM GEM data file">> >> \o [k \in 1..Len(segments) |-> segments[k].record])

InitShadeTrip ==
    /\ call = NoCall
    /\ \E segments \in SeqsOf(ShadeSegments, 1, MaxSegments) :
          heap = <<[text |-> GemTextOf(segments), segments |-> segments]>>
    /\ ret = NoRet
    /\ printed = 0
    /\ files = <<>>

\* model = model_from_gem(text)
ShadesReadCall ==
    /\ call.fn = "none"
    /\ \E r \in {model_from_gem(heap[1].text, <<>>)} :
          /\ call' = [fn |-> "model_from_gem", text |-> 1]
          /\ heap' = IF r.err # "" THEN heap ELSE Append(heap, r.model)
          /\ ret' = IF r.err # ""
                    THEN [kind |-> "raise", error |-> r.err, message |-> r.message]
                    ELSE [kind |-> "return", value |-> Len(heap) + 1]
          /\ printed' = printed + r.prints
    /\ UNCHANGED files

\* text = model_to_gem(model, shade_thickness) on the model that was read
ShadesWriteCall ==
    /\ call.fn = "model_from_gem"
    /\ ret.kind = "return"
    /\ \E th \in Thicknesses :
          \E r \in {model_to_gem(heap, ret.value, th)} :
              /\ call' = [fn |-> "model_to_gem", model |-> ret.value,
                          before |-> heap[ret.value], shade_thickness |-> th]
              /\ heap' = r.heap
              /\ ret' = IF r.raise THEN [kind |-> "raise"]
                        ELSE [kind |-> "return", value |-> r.text]
              /\ printed' = printed + r.prints
    /\ UNCHANGED files

NextShadeTrip == ShadesReadCall \/ ShadesWriteCall

SpecShadeTrip == InitShadeTrip /\ [][NextShadeTrip]_vars

\* the lines of a text that start a record
RecordStarts(text) == {i \in 1..Len(Lines(text)) : Lines(text)[i] = <<"LAYER">>}

\* C29: reading a GEM text and writing the model back never merges shades
\* that came from different segments into one record: two shade, tree or PV
\* segments get different group ids even when their name lines are identical,
\* so the number of shade records written equals the number of shade segments
\* read.
C29_SegmentsStayApart ==
    /\ call.fn = "model_from_gem" => ret.kind = "return"
    /\ call.fn = "model_to_gem" =>
          /\ ret.kind = "return"
          /\ Cardinality(RecordStarts(ret.value)) = Len(heap[1].segments)

----------------------------------------------------------------------------
(* Claims on the two variants of the writer                                *)

\* what the reader's split finds in a text: per segment its lines that are not
\* blank
SegmentsOf(text) ==
    LET segments == Tail(SplitOnSeq(text, <<NL, "LAYER">>))
    IN  [k \in 1..Len(segments) |-> Content(segments[k])]

\* every LAYER of the text is a line of its own
LayerLinesAlone(text) ==
    \A i \in 1..Len(Lines(text)) :
        "LAYER" \in Range(Lines(text)[i]) => Lines(text)[i] = <<"LAYER">>

\* C30: the file written by model_to_ies and the string returned by
\* model_to_gem hold the same records in the same order for the same model and
\* shade_thickness, and in both every record's LAYER line starts on its own
\* line, so that the reader's split on the record delimiter finds exactly one
\* segment per written record, for every combination of rooms, ungrouped
\* shades, grouped shades and shade meshes.
C30_SameRecordsBothVariants ==
    (call.fn = "model_to_ies" /\ ret.kind = "return") =>
        LET file == files[ret.value]
            gem  == model_to_gem(<<call.before>>, 1, call.shade_thickness)
        IN  /\ ~gem.raise
            /\ LayerLinesAlone(file)
            /\ LayerLinesAlone(gem.text)
            /\ SegmentsOf(file) = SegmentsOf(gem.text)
            /\ Len(SegmentsOf(file)) = Len(ModelRecordIds(heap[Len(heap)]))

====
